---- MODULE Spec2Model ----
(***************************************************************************)
(* Metadata-driven Labeled Property Graph engine (src/src2): the graph     *)
(* store (a networkx MultiDiGraph), DynamicGraphBuilder, the              *)
(* ExpressionEvaluator and the RuleEngine, as one state machine.           *)
(*                                                                         *)
(* A run is: build_graph (one _load_entity per schema entity, then one     *)
(* _create_relationship per schema relationship), then                     *)
(* apply_transformations (one rule per step, in list order).  The rows of  *)
(* the tabular inputs and the rules of the rule document are inputs and    *)
(* are drawn from small menus.                                             *)
(***************************************************************************)
EXTENDS Integers, Sequences, FiniteSets, TLC

VARIABLES
    nodes,               \* graph._node: node id -> attribute dict
    order,               \* insertion order of the node ids (dict order)
    edges,               \* the multigraph's edges, in insertion order
    entity_node_map,     \* DynamicGraphBuilder._entity_node_map
    cache,               \* ExpressionEvaluator._aggregation_cache
    transformation_log,  \* RuleEngine.transformation_log
    pc,                  \* "load" | "build" | "rules" | "done" | "failed"
    nextEntity,          \* index of the next schema entity to load
    nextRel,             \* index of the next schema relationship to create
    explicit,            \* history: ids that were passed to add_node
    dupHit,              \* history: the last step called add_node on an existing id
    pre,                 \* history: nodes / rule-made ids / edges before the last step
    ruleMade,            \* history: ids passed to add_node by a rule
    lastRule,            \* history: the rule the last step applied (NoRule in build)
    seen,                \* history: label -> ids the last rule fetched for that label
    startCache,          \* history: the cache as the last rule's evaluations found it
    propErr,             \* history: an evaluator error was raised while computing
                         \*          a property of the last rule
    loaded,              \* the documents the driver has loaded: "schema", "transformations"
    rejected,            \* history: a document was rejected by its validator
    declared,            \* history: ids of the rules apply_transformations started, in order
    skipped,             \* history: the disabled entry the last step reached (NoRule if none)
    emissions            \* history: the rows LPGBuilder.load_emissions was given

vars == <<nodes, order, edges, entity_node_map, cache, transformation_log, pc,
          nextEntity, nextRel, explicit, dupHit, pre, ruleMade, lastRule, seen,
          startCache, propErr, loaded, rejected, declared, skipped, emissions>>

----------------------------------------------------------------------------
(* Bounds of the model *)

MaxRows == 2
MaxRules == 2

----------------------------------------------------------------------------
(* Values: Python's str, numbers, bool and None, tagged so that values of  *)
(* different types can be compared (Python's == is False across them).     *)
(* A number is the exact fraction p/q in lowest terms, so that an average  *)
(* of integers is a number like any other.                                  *)

None == <<"None">>
Str(s) == <<"str", s>>
Num(n) == <<"num", n, 1>>
Bool(b) == <<"bool", b>>

RECURSIVE GCD(_, _)
GCD(a, b) == IF b = 0 THEN a ELSE GCD(b, a % b)

Abs(n) == IF n < 0 THEN -n ELSE n

\* p/q for q > 0
Ratio(p, q) == LET g == GCD(Abs(p), q) IN <<"num", p \div g, q \div g>>

Less(a, b) == a[2] * b[3] < b[2] * a[3]
Plus(a, b) == Ratio(a[2] * b[3] + b[2] * a[3], a[3] * b[3])
Times(a, b) == Ratio(a[2] * b[2], a[3] * b[3])
\* a / b for b # 0
Quotient(a, b) ==
    Ratio((IF b[2] < 0 THEN -1 ELSE 1) * a[2] * b[3], a[3] * Abs(b[2]))

IsStr(v) == v[1] = "str"
IsNum(v) == v[1] = "num"

\* str(value), as used by id synthesis and by _convert_value
PyStr(v) ==
    CASE v[1] = "str" -> v[2]
      [] v[1] = "num" -> (IF v[3] = 1 THEN ToString(v[2])
                          ELSE ToString(v[2]) \o "/" \o ToString(v[3]))
      [] v[1] = "bool" -> (IF v[2] THEN "True" ELSE "False")
      [] OTHER -> "None"

\* bool(value), as used by `if x:` and bool(...)
Truthy(v) ==
    CASE v[1] = "str" -> v[2] # ""
      [] v[1] = "num" -> v[2] # 0
      [] v[1] = "bool" -> v[2]
      [] OTHER -> FALSE

EmptyMap == [k \in {} |-> None]

\* dict.update: keys of `new` win, insertion of the others is kept
Update(old, new) ==
    [k \in (DOMAIN old) \cup (DOMAIN new) |->
        IF k \in DOMAIN new THEN new[k] ELSE old[k]]

\* dict.get(key) with its default None
Get(d, k) == IF k \in DOMAIN d THEN d[k] ELSE None

BSeq(S, n) == UNION {[1..k -> S] : k \in 0..n}

Range(s) == {s[i] : i \in DOMAIN s}

----------------------------------------------------------------------------
(* The graph store: networkx.MultiDiGraph as the code uses it.  G is the   *)
(* record [nodes, order, edges] plus the history fields explicit, ruleMade *)
(* and dupHit, which no operation reads.                                   *)

\* graph.add_node(id, **attrs): inserts, or UPDATES the attributes of a node
\* that is already there; it never raises.
AddNode(G, id, attrs, byRule) ==
    [G EXCEPT
        !.nodes = IF id \in DOMAIN G.nodes
                  THEN [n \in DOMAIN G.nodes |->
                          IF n = id THEN Update(G.nodes[n], attrs) ELSE G.nodes[n]]
                  ELSE [n \in (DOMAIN G.nodes) \cup {id} |->
                          IF n = id THEN attrs ELSE G.nodes[n]],
        !.order = IF id \in DOMAIN G.nodes THEN G.order ELSE Append(G.order, id),
        !.explicit = G.explicit \cup {id},
        !.ruleMade = IF byRule THEN G.ruleMade \cup {id} ELSE G.ruleMade,
        !.dupHit = G.dupHit \/ id \in DOMAIN G.nodes]

\* What add_edge does to an endpoint that is not a node: it creates the node
\* with an empty attribute dict.
Touch(G, id) ==
    IF id \in DOMAIN G.nodes THEN G
    ELSE [G EXCEPT
            !.nodes = [n \in (DOMAIN G.nodes) \cup {id} |->
                         IF n = id THEN EmptyMap ELSE G.nodes[n]],
            !.order = Append(G.order, id)]

\* graph.add_edge(u, v, **attrs): a new parallel edge every time; missing
\* endpoints are created on the fly; it never raises.
AddEdge(G, u, v, attrs) ==
    LET G2 == Touch(Touch(G, u), v)
    IN  [G2 EXCEPT !.edges = Append(G2.edges, [from |-> u, to |-> v, attrs |-> attrs])]

\* graph.successors(n): the distinct targets of n's out-edges, in the order
\* in which the first edge to each was added.
RECURSIVE SuccessorsFrom(_, _, _, _)
SuccessorsFrom(es, n, i, acc) ==
    IF i > Len(es) THEN acc
    ELSE SuccessorsFrom(es, n, i + 1,
            IF es[i].from = n /\ es[i].to \notin Range(acc)
            THEN Append(acc, es[i].to) ELSE acc)

Successors(G, n) == SuccessorsFrom(G.edges, n, 1, <<>>)

\* [n for n, d in graph.nodes(data=True) if d.get('label') == entity]
NodesWithLabel(G, entity) ==
    SelectSeq(G.order, LAMBDA n : Get(G.nodes[n], "label") = Str(entity))

----------------------------------------------------------------------------
(* The schema document and the tabular inputs *)

Schema ==
    [version |-> "1.0",
     entities |-> <<
        [name |-> "A", id_field |-> "id", source |-> [path |-> "a.csv"],
         properties |-> << [field |-> "id", type |-> "string"] >>],
        [name |-> "B", id_field |-> "id", source |-> [path |-> "b.csv"],
         properties |-> << [field |-> "id", type |-> "string"],
                           [field |-> "facility_id", type |-> "string"],
                           [field |-> "x", type |-> "integer"] >>] >>,
     relationships |-> <<
        [name |-> "HAS", from_entity |-> "A", to_entity |-> "B",
         join_condition |-> [type |-> "field_match",
                             from_field |-> "id", to_field |-> "facility_id"]] >>]

\* The records a tabular source may hold (pandas rows: column -> cell).
Rows(entity_name) ==
    IF entity_name = "A"
    THEN { [id |-> Str("a1")], [id |-> Str("a2")] }
    ELSE { [id |-> Str("b1"), facility_id |-> Str("a1"), x |-> Num(1)],
           [id |-> Str("b2"), facility_id |-> Str("a1"), x |-> Num(3)],
           [id |-> Str("a1"), facility_id |-> Str("a2"), x |-> None] }

----------------------------------------------------------------------------
(* DynamicGraphBuilder *)

\* _generate_node_id, the id_field branch: str(row[id_field])
GenerateNodeId(entity, row) == PyStr(row[entity.id_field])

\* _convert_value
ConvertValue(value, field_type) ==
    IF value = None THEN None
    ELSE CASE field_type = "integer" -> value
           [] field_type = "float" -> value
           [] field_type = "string" -> Str(PyStr(value))
           [] field_type = "boolean" -> Bool(Truthy(value))
           [] OTHER -> value

\* _extract_properties: the declared properties whose column the row has
RECURSIVE ExtractFrom(_, _, _, _)
ExtractFrom(defs, row, i, properties) ==
    IF i > Len(defs) THEN properties
    ELSE LET d == defs[i]
             prop_name == IF "alias" \in DOMAIN d THEN d.alias ELSE d.field
             converted == ConvertValue(row[d.field], d.type)
             named == Update(properties, prop_name :> converted)
         IN  IF d.field \notin DOMAIN row
             THEN ExtractFrom(defs, row, i + 1, properties)
             ELSE ExtractFrom(defs, row, i + 1,
                    IF "alias" \in DOMAIN d
                    THEN Update(named, d.field :> converted) ELSE named)

ExtractProperties(entity, row) == ExtractFrom(entity.properties, row, 1, EmptyMap)

\* the row loop of _load_entity
RECURSIVE LoadRows(_, _, _, _)
LoadRows(G, entity, rows, i) ==
    IF i > Len(rows) THEN G
    ELSE LoadRows(
           AddNode(G, GenerateNodeId(entity, rows[i]),
                   Update(ExtractProperties(entity, rows[i]),
                          "label" :> Str(entity.name)),
                   FALSE),
           entity, rows, i + 1)

\* get_nodes_by_entity
GetNodesByEntity(map, entity_name) ==
    IF entity_name \in DOMAIN map THEN map[entity_name] ELSE <<>>

\* _evaluate_join_condition (the builder's own join)
EvaluateJoinCondition(condition, from_data, to_data) ==
    IF "from_field" \in DOMAIN condition /\ "to_field" \in DOMAIN condition
    THEN Get(from_data, condition.from_field) = Get(to_data, condition.to_field)
    ELSE FALSE

\* the double loop of _create_relationship, from-major
RECURSIVE RelateFrom(_, _, _, _, _, _)
RelateFrom(G, rel, from_nodes, to_nodes, i, j) ==
    IF i > Len(from_nodes) THEN G
    ELSE IF j > Len(to_nodes) THEN RelateFrom(G, rel, from_nodes, to_nodes, i + 1, 1)
    ELSE RelateFrom(
           IF EvaluateJoinCondition(rel.join_condition,
                                    G.nodes[from_nodes[i]], G.nodes[to_nodes[j]])
           THEN AddEdge(G, from_nodes[i], to_nodes[j], "label" :> Str(rel.name)) ELSE G,
           rel, from_nodes, to_nodes, i, j + 1)

----------------------------------------------------------------------------
(* ExpressionEvaluator.  An expression string is modelled by its syntax     *)
(* tree: [op |-> "lit", val], [op |-> "field", ent, field] for `ent.field`, *)
(* [op |-> "agg", func, ent, field] for `func(ent.field)`, and              *)
(* [op |-> "lt" | "eq" | "mul", l, r]; [op |-> "true"] is the string       *)
(* "true".  A context is [names, dicts, scalars]: the entries of the Python *)
(* context that are dicts (alias -> attribute dict) and those that are not, *)
(* with `names` the insertion order of the dicts.                           *)
(* A result is [ok, val, cache]; ok = FALSE stands for a raised exception.  *)

Ok(v, c) == [ok |-> TRUE, val |-> v, cache |-> c]
Err(c) == [ok |-> FALSE, val |-> None, cache |-> c]
Good(v) == [ok |-> TRUE, val |-> v]
Bad == [ok |-> FALSE, val |-> None]

Lit(v) == [op |-> "lit", val |-> v]
Field(e, f) == [op |-> "field", ent |-> e, field |-> f]
Agg(fn, e, f) == [op |-> "agg", func |-> fn, ent |-> e, field |-> f]
Bin(o, l, r) == [op |-> o, l |-> l, r |-> r]
Now == [op |-> "now"]

\* The readings datetime.now().isoformat() may give during a run; Epoch is
\* the reading of a run that never asks.
Epoch == "2026-01-01T00:00:00"
Clock == {Epoch, "2026-01-01T00:00:01"}

Context(names, dicts, scalars) == [names |-> names, dicts |-> dicts, scalars |-> scalars]

\* cache_key = f"{function}_{entity}_{field}"
CacheKey(function, entity, field) == function \o "_" \o entity \o "_" \o field

AllNum(values) == \A i \in DOMAIN values : IsNum(values[i])

RECURSIVE SumOf(_, _)
SumOf(values, i) ==
    IF i > Len(values) THEN Num(0) ELSE Plus(values[i], SumOf(values, i + 1))

MaxOf(values) == CHOOSE m \in Range(values) : \A v \in Range(values) : ~Less(m, v)
MinOf(values) == CHOOSE m \in Range(values) : \A v \in Range(values) : ~Less(v, m)

\* total / len(values)
Mean(total, n) == Ratio(total[2], total[3] * n)
MeanOf(values) == Mean(SumOf(values, 1), Len(values))

\* the reduction of evaluate_aggregation over the collected values:
\* statistics.mean(), sum() and max()/min() raise TypeError on None among
\* numbers (stddev is not modelled: no rule of the menu uses it)
Reduce(function, values) ==
    IF Len(values) = 0 THEN Good(Num(0))
    ELSE IF function \notin {"avg", "sum", "max", "min"} THEN Bad      \* ValueError
    ELSE IF function \in {"max", "min"} /\ Len(values) = 1 THEN Good(values[1])
    ELSE IF ~AllNum(values) THEN Bad                                    \* TypeError
    ELSE CASE function = "avg" -> Good(MeanOf(values))
           [] function = "sum" -> Good(SumOf(values, 1))
           [] function = "max" -> Good(MaxOf(values))
           [] OTHER -> Good(MinOf(values))

ValuesOf(G, ns, field) == [i \in 1..Len(ns) |-> G.nodes[ns[i]][field]]

\* the values evaluate_aggregation collects: node_data[field] of every node
\* of the label that HAS the key (a None value is collected too)
CollectValues(G, entity, field) ==
    ValuesOf(G, SelectSeq(NodesWithLabel(G, entity),
                          LAMBDA n : field \in DOMAIN G.nodes[n]), field)

\* the end of evaluate_aggregation: the result is cached and returned
StoreAggregation(c, cache_key, r) ==
    IF r.ok THEN Ok(r.val, Update(c, cache_key :> r.val)) ELSE Err(c)

\* an evaluation that computes the aggregate anew at every call
EvaluateAggregationAnew(G, c, function, entity, field) ==
    IF DOMAIN G.nodes = {} THEN Err(c)
    ELSE StoreAggregation(c, CacheKey(function, entity, field),
            IF function = "count" THEN Good(Num(Len(NodesWithLabel(G, entity))))
            ELSE Reduce(function, CollectValues(G, entity, field)))

\* evaluate_aggregation
EvaluateAggregation(G, c, function, entity, field) ==
    IF CacheKey(function, entity, field) \in DOMAIN c
    THEN Ok(c[CacheKey(function, entity, field)], c)
    ELSE IF DOMAIN G.nodes = {} THEN Err(c)      \* `if not self.graph`
    ELSE StoreAggregation(c, CacheKey(function, entity, field),
            IF function = "count" THEN Good(Num(Len(NodesWithLabel(G, entity))))
            ELSE Reduce(function, CollectValues(G, entity, field)))

\* the aggregation calls of an expression, in textual order
RECURSIVE AggCalls(_)
AggCalls(e) ==
    CASE e.op = "agg" -> <<e>>
      [] e.op \in {"lit", "field", "true", "now"} -> <<>>
      [] OTHER -> AggCalls(e.l) \o AggCalls(e.r)

\* _replace_functions: every aggregation call is evaluated (and cached)
\* before anything else of the expression
RECURSIVE ReplaceFunctions(_, _, _, _)
RECURSIVE ReplaceNext(_, _, _, _)
ReplaceNext(G, calls, i, r) ==
    IF r.ok THEN ReplaceFunctions(G, r.cache, calls, i + 1) ELSE Err(r.cache)

ReplaceFunctions(G, c, calls, i) ==
    IF i > Len(calls) THEN Ok(None, c)
    ELSE ReplaceNext(G, calls, i,
            EvaluateAggregation(G, c, calls[i].func, calls[i].ent, calls[i].field))

\* Python's operators on the values of the model
BinOp(o, l, r) ==
    IF ~l.ok \/ ~r.ok THEN Bad
    ELSE CASE o = "eq" -> Good(Bool(l.val = r.val))
           [] o = "lt" -> IF IsNum(l.val) /\ IsNum(r.val)
                          THEN Good(Bool(Less(l.val, r.val))) ELSE Bad
           [] o = "mul" -> IF IsNum(l.val) /\ IsNum(r.val)
                           THEN Good(Times(l.val, r.val)) ELSE Bad
           [] o = "div" -> IF IsNum(l.val) /\ IsNum(r.val) /\ r.val[2] # 0
                           THEN Good(Quotient(l.val, r.val))
                           ELSE Bad                 \* ZeroDivisionError, TypeError
           [] OTHER -> Bad

\* _replace_field_references followed by eval(): `ent.field` is replaced by
\* the value only if ent is a dict of the context that has the key; what is
\* left unreplaced makes eval() raise (NameError, AttributeError)
RECURSIVE PyEval(_, _, _)
PyEval(e, context, c) ==
    CASE e.op = "lit" -> Good(e.val)
      [] e.op = "agg" -> Good(c[CacheKey(e.func, e.ent, e.field)])
      [] e.op = "field" ->
            IF e.ent \in DOMAIN context.dicts /\ e.field \in DOMAIN context.dicts[e.ent]
            THEN Good(context.dicts[e.ent][e.field])
            ELSE Bad
      [] e.op = "true" -> Bad                             \* the name `true`: NameError
      [] OTHER -> BinOp(e.op, PyEval(e.l, context, c), PyEval(e.r, context, c))

Evaluated(v, c) == IF v.ok THEN Ok(v.val, c) ELSE Err(c)

EvaluateReplaced(expression, context, f) ==
    IF f.ok THEN Evaluated(PyEval(expression, context, f.cache), f.cache)
    ELSE Err(f.cache)

\* _replace_functions, lines 173-175: every `now()` of the expression is
\* replaced by the quoted reading of the clock
RECURSIVE ReplaceNow(_, _)
ReplaceNow(e, t) ==
    CASE e.op = "now" -> Lit(Str(t))
      [] e.op \in {"lit", "field", "agg", "true"} -> e
      [] OTHER -> Bin(e.op, ReplaceNow(e.l, t), ReplaceNow(e.r, t))

\* evaluate
Evaluate(G, c, expression, context) ==
    EvaluateReplaced(ReplaceNow(expression, G.now), context,
                     ReplaceFunctions(G, c, AggCalls(expression), 1))

\* evaluate_condition; val is a BOOLEAN.  all()/any() stop at the first
\* deciding operand.
RECURSIVE EvaluateCondition(_, _, _, _)
RECURSIVE EvaluateAll(_, _, _, _, _, _)
RECURSIVE EvaluateAllNext(_, _, _, _, _, _)
EvaluateAllNext(G, conditions, context, i, stopOn, r) ==
    IF ~r.ok THEN r
    ELSE IF r.val = stopOn THEN Ok(stopOn, r.cache)
    ELSE EvaluateAll(G, r.cache, conditions, context, i + 1, stopOn)

EvaluateAll(G, c, conditions, context, i, stopOn) ==
    IF i > Len(conditions) THEN Ok(~stopOn, c)
    ELSE EvaluateAllNext(G, conditions, context, i, stopOn,
                         EvaluateCondition(G, c, conditions[i], context))

Negated(r) == IF r.ok THEN Ok(~r.val, r.cache) ELSE r
AsBool(r) == IF r.ok THEN Ok(Truthy(r.val), r.cache) ELSE r
Matched(from_val, t) == IF t.ok THEN Ok(from_val = t.val, t.cache) ELSE t

MatchTo(G, condition, context, f) ==
    IF f.ok
    THEN Matched(f.val, Evaluate(G, f.cache, condition.to_expression, context))
    ELSE f

EvaluateCondition(G, c, condition, context) ==
    IF "operator" \in DOMAIN condition /\ condition.operator \in {"AND", "OR", "NOT"}
    THEN CASE condition.operator = "AND" ->
                 EvaluateAll(G, c, condition.conditions, context, 1, FALSE)
           [] condition.operator = "OR" ->
                 EvaluateAll(G, c, condition.conditions, context, 1, TRUE)
           [] OTHER ->
                 Negated(EvaluateCondition(G, c, condition.conditions[1], context))
    ELSE IF "type" \notin DOMAIN condition THEN Err(c)           \* KeyError
    ELSE IF condition.type = "field_match"
    THEN IF "from_expression" \notin DOMAIN condition
            \/ "to_expression" \notin DOMAIN condition
         THEN Err(c)                                            \* KeyError
         ELSE MatchTo(G, condition, context,
                      Evaluate(G, c, condition.from_expression, context))
    ELSE IF condition.type = "expression"
    THEN AsBool(Evaluate(G, c, condition.expression, context))
    ELSE Ok(FALSE, c)

----------------------------------------------------------------------------
(* RuleEngine: helpers shared by the rule kinds.  A rule run threads the    *)
(* record R = [G, cache, ok, propErr, count]: the graph, the evaluator's    *)
(* cache, whether the rule is still running (ok = FALSE: an exception left  *)
(* it), whether a property computation raised, and the rule's counter       *)
(* (links_added, nodes_created).                                            *)

Run(G, c) == [G |-> G, cache |-> c, ok |-> TRUE, propErr |-> FALSE, count |-> 0]

Raised(R, c) == [R EXCEPT !.ok = FALSE, !.cache = c]

\* The context of a derived_node tuple: every alias of `names` bound to the
\* attribute dict of its node (the dicts are the graph's own, so a later
\* add_node shows through), and `<alias>_node_id` for the aliases of idOf.
BindContext(G, names, ids, idOf) ==
    Context(names,
            [a \in Range(names) |-> G.nodes[ids[a]]],
            [k \in {a \o "_node_id" : a \in idOf} |->
                Str(ids[CHOOSE a \in idOf : a \o "_node_id" = k])])

\* _resolve_source: `entity.field` of the context, dict.get's None for a
\* missing key; anything else raises
ResolveSource(source, context) ==
    IF "field" \in DOMAIN source /\ source.ent \in DOMAIN context.dicts
    THEN Good(Get(context.dicts[source.ent], source.field))
    ELSE Bad

IdText(v) == IF v.ok THEN [ok |-> TRUE, id |-> PyStr(v.val)] ELSE [ok |-> FALSE, id |-> ""]

IdJoin(a, b) ==
    IF a.ok /\ b.ok THEN [ok |-> TRUE, id |-> a.id \o b.id] ELSE [ok |-> FALSE, id |-> ""]

\* _generate_node_id_from_template.  A template is a sequence of parts,
\* [lit |-> text] or [ref |-> source] for a {entity.field} placeholder.
RECURSIVE GenerateNodeIdFromTemplate(_, _, _)
GenerateNodeIdFromTemplate(template, context, i) ==
    IF i > Len(template) THEN [ok |-> TRUE, id |-> ""]
    ELSE IdJoin(IF "lit" \in DOMAIN template[i]
                THEN [ok |-> TRUE, id |-> template[i].lit]
                ELSE IdText(ResolveSource(template[i].ref, context)),
                GenerateNodeIdFromTemplate(template, context, i + 1))

FirstOrNone(context, holders) ==
    IF Len(holders) > 0 THEN context.dicts[holders[1]]["facility_id"] ELSE None

\* _resolve_node_reference: "new_node", a bound alias, or the sentinel
\* "facility": the facility_id of the first dict of the context that has one
ResolveNodeReference(ref, current_node, context) ==
    IF ref = "new_node" THEN Str(current_node)
    ELSE IF (ref \o "_node_id") \in DOMAIN context.scalars
    THEN context.scalars[ref \o "_node_id"]
    ELSE IF ref = "facility"
    THEN FirstOrNone(context,
                     SelectSeq(context.names,
                               LAMBDA a : "facility_id" \in DOMAIN context.dicts[a]))
    ELSE None

\* `if from_node and to_node:` add the edge
AddEdgeIf(G, from_node, to_node, label) ==
    IF Truthy(from_node) /\ Truthy(to_node)
    THEN AddEdge(G, from_node[2], to_node[2], "label" :> Str(label))
    ELSE G

DerivedEdge(G, node_id, edge_def, context) ==
    AddEdgeIf(G, ResolveNodeReference(edge_def.from, node_id, context),
              ResolveNodeReference(edge_def.to, node_id, context), edge_def.label)

\* _create_derived_edges
RECURSIVE CreateDerivedEdges(_, _, _, _, _, _, _)
CreateDerivedEdges(G, node_id, edges_def, names, ids, idOf, i) ==
    IF i > Len(edges_def) THEN G
    ELSE CreateDerivedEdges(
           DerivedEdge(G, node_id, edges_def[i], BindContext(G, names, ids, idOf)),
           node_id, edges_def, names, ids, idOf, i + 1)

\* round(value, n) behind isinstance(value, (int, float)): the numbers of
\* the menus need no rounding at the digits their rules ask for
PyRound(def, value) ==
    IF "round" \in DOMAIN def /\ value[1] = "bool"
    THEN Num(IF value[2] THEN 1 ELSE 0)
    ELSE value

----------------------------------------------------------------------------
(* cross_link *)

\* one (from, to) pair: an exception of the condition leaves the rule
CrossLinkPair(R, trans, from_node, to_node, r) ==
    IF ~r.ok THEN Raised(R, r.cache)
    ELSE IF r.val
    THEN [R EXCEPT !.cache = r.cache, !.count = @ + 1,
                   !.G = AddEdge(R.G, from_node, to_node,
                                 "label" :> Str(trans.link_label))]
    ELSE [R EXCEPT !.cache = r.cache]

FromTo(G, from_node, to_node) ==
    Context(<<"from", "to">>,
            [k \in {"from", "to"} |->
                IF k = "from" THEN G.nodes[from_node] ELSE G.nodes[to_node]],
            EmptyMap)

\* the double loop of _apply_cross_link, from-major; the edges added before
\* an exception stay
RECURSIVE CrossLinkFrom(_, _, _, _, _, _)
CrossLinkFrom(R, trans, from_nodes, to_nodes, i, j) ==
    IF ~R.ok \/ i > Len(from_nodes) THEN R
    ELSE IF j > Len(to_nodes) THEN CrossLinkFrom(R, trans, from_nodes, to_nodes, i + 1, 1)
    ELSE CrossLinkFrom(
           CrossLinkPair(R, trans, from_nodes[i], to_nodes[j],
                         EvaluateCondition(R.G, R.cache, trans.condition,
                                           FromTo(R.G, from_nodes[i], to_nodes[j]))),
           trans, from_nodes, to_nodes, i, j + 1)

ApplyCrossLinkRule(G, c, map, trans) ==
    CrossLinkFrom(Run(G, c), trans,
                  GetNodesByEntity(map, trans.from_entity),
                  GetNodesByEntity(map, trans.to_entity), 1, 1)

----------------------------------------------------------------------------
(* derived_node *)

NoHit(ok, c) == [ok |-> ok, cache |-> c, hit |-> FALSE, node |-> ""]

\* the candidate loop of _find_matching_nodes for one alias: the first
\* candidate, in list order, for which the join condition is true
RECURSIVE FindCandidate(_, _, _, _, _, _, _, _)
RECURSIVE CandidateNext(_, _, _, _, _, _, _, _)
CandidateNext(G, trans, alias, candidates, j, names, ids, r) ==
    IF ~r.ok THEN NoHit(FALSE, r.cache)
    ELSE IF r.val
    THEN [ok |-> TRUE, cache |-> r.cache, hit |-> TRUE, node |-> candidates[j]]
    ELSE FindCandidate(G, r.cache, trans, alias, candidates, j + 1, names, ids)

FindCandidate(G, c, trans, alias, candidates, j, names, ids) ==
    IF j > Len(candidates) THEN NoHit(TRUE, c)
    ELSE CandidateNext(G, trans, alias, candidates, j, names, ids,
            EvaluateCondition(G, c, trans.join_condition,
                BindContext(G, <<trans.source_entities[1].alias, alias>> \o names,
                            Update(ids, alias :> candidates[j]), Range(names))))

\* _find_matching_nodes: the aliases after the first, in declared order;
\* `names` are the aliases matched so far.  An alias without a match is
\* passed over and the loop goes on.
RECURSIVE FindMatchingNodes(_, _, _, _, _, _, _)
RECURSIVE MatchingNext(_, _, _, _, _, _, _)
MatchingNext(G, map, trans, i, names, ids, f) ==
    IF ~f.ok THEN [ok |-> FALSE, cache |-> f.cache, names |-> names, ids |-> ids]
    ELSE IF f.hit
    THEN FindMatchingNodes(G, f.cache, map, trans, i + 1,
                           Append(names, trans.source_entities[i].alias),
                           Update(ids, trans.source_entities[i].alias :> f.node))
    ELSE FindMatchingNodes(G, f.cache, map, trans, i + 1, names, ids)

FindMatchingNodes(G, c, map, trans, i, names, ids) ==
    IF i > Len(trans.source_entities)
    THEN [ok |-> TRUE, cache |-> c, names |-> names, ids |-> ids]
    ELSE MatchingNext(G, map, trans, i, names, ids,
            FindCandidate(G, c, trans, trans.source_entities[i].alias,
                          GetNodesByEntity(map, trans.source_entities[i].entity),
                          1, names, ids))

\* `if matched:` on what _find_matching_nodes returns: the dict `matched`
\* when every other alias matched, else None; an EMPTY dict is falsy too
MatchedIsTruthy(trans, names) ==
    /\ Len(names) = Len(trans.source_entities) - 1
    /\ Len(names) > 0

\* lines 161-168: the value of one property definition
PropertyValue(R, d, context) ==
    IF "value" \in DOMAIN d THEN Ok(d.value, R.cache)
    ELSE IF "source" \in DOMAIN d
    THEN Evaluated(ResolveSource(d.source, context), R.cache)
    ELSE Evaluate(R.G, R.cache, d.expression, context)

\* a property loop without the try block: an error leaves the rule
TakePropertyOrRaise(R, d, properties, v) ==
    [R |-> [R EXCEPT !.cache = v.cache, !.propErr = R.propErr \/ ~v.ok,
                     !.ok = R.ok /\ v.ok],
     properties |-> IF v.ok THEN Update(properties, d.name :> PyRound(d, v.val))
                    ELSE properties]

\* lines 170-176: the property is rounded and kept, or skipped when its
\* computation raised
TakeProperty(R, d, properties, v) ==
    [R |-> [R EXCEPT !.cache = v.cache, !.propErr = R.propErr \/ ~v.ok],
     properties |-> IF v.ok THEN Update(properties, d.name :> PyRound(d, v.val))
                    ELSE properties]

\* the property loop of _apply_derived_node
RECURSIVE DerivedProperties(_, _, _, _)
DerivedProperties(S, properties_def, context, i) ==
    IF i > Len(properties_def) THEN S
    ELSE IF DOMAIN properties_def[i] \cap {"value", "source", "expression"} = {}
    THEN DerivedProperties(S, properties_def, context, i + 1)
    ELSE DerivedProperties(
           TakeProperty(S.R, properties_def[i], S.properties,
                        PropertyValue(S.R, properties_def[i], context)),
           properties_def, context, i + 1)

\* lines 178-183: the node is added, then its edges
DerivedAdd(trans, names, ids, node_id, S) ==
    [S.R EXCEPT !.count = @ + 1,
                !.G = CreateDerivedEdges(AddNode(S.R.G, node_id, S.properties, TRUE),
                                         node_id, trans.edges, names, ids,
                                         Range(names), 1)]

\* lines 154-183 for a complete tuple
DerivedNode(R, trans, names, ids, nid) ==
    IF ~nid.ok THEN Raised(R, R.cache)
    ELSE DerivedAdd(trans, names, ids, nid.id,
            DerivedProperties([R |-> R, properties |-> "label" :> Str(trans.output_entity)],
                              trans.properties,
                              BindContext(R.G, names, ids, Range(names)), 1))

DerivedComplete(R, trans, names, ids) ==
    DerivedNode(R, trans, names, ids,
                GenerateNodeIdFromTemplate(trans.node_id_template,
                                           BindContext(R.G, names, ids, Range(names)), 1))

\* lines 146-152 for one node of the first alias
DerivedTuple(R, trans, m) ==
    IF ~m.ok THEN Raised(R, m.cache)
    ELSE IF ~MatchedIsTruthy(trans, m.names) THEN [R EXCEPT !.cache = m.cache]
    ELSE DerivedComplete([R EXCEPT !.cache = m.cache], trans,
                         <<trans.source_entities[1].alias>> \o m.names, m.ids)

\* the loop of _apply_derived_node over the nodes of the first alias
RECURSIVE DerivedFrom(_, _, _, _, _)
DerivedFrom(R, map, trans, first_nodes, i) ==
    IF ~R.ok \/ i > Len(first_nodes) THEN R
    ELSE DerivedFrom(
           DerivedTuple(R, trans,
                        FindMatchingNodes(R.G, R.cache, map, trans, 2, <<>>,
                                          trans.source_entities[1].alias :> first_nodes[i])),
           map, trans, first_nodes, i + 1)

ApplyDerivedNodeRule(G, c, map, trans) ==
    DerivedFrom(Run(G, c), map, trans,
                GetNodesByEntity(map, trans.source_entities[1].entity), 1)

----------------------------------------------------------------------------
(* enrich_properties *)

\* `"avg(" in expression or "sum(" in expression`
RECURSIVE HasAvgOrSum(_)
HasAvgOrSum(e) ==
    CASE e.op = "agg" -> e.func \in {"avg", "sum"}
      [] e.op \in {"lit", "field", "true", "now"} -> FALSE
      [] OTHER -> HasAvgOrSum(e.l) \/ HasAvgOrSum(e.r)

IsPrecomputed(enrichment) ==
    "expression" \in DOMAIN enrichment /\ HasAvgOrSum(enrichment.expression)

Precomputed(S, prop_name, r) ==
    IF r.ok
    THEN [R |-> [S.R EXCEPT !.cache = r.cache],
          precomputed |-> Update(S.precomputed, prop_name :> r.val)]
    ELSE [R |-> [S.R EXCEPT !.cache = r.cache, !.ok = FALSE, !.propErr = TRUE],
          precomputed |-> S.precomputed]

\* the precomputation loop (lines 354-360): outside any try block, against
\* the empty context
RECURSIVE Precompute(_, _, _)
Precompute(S, enrichments, i) ==
    IF ~S.R.ok \/ i > Len(enrichments) THEN S
    ELSE IF ~IsPrecomputed(enrichments[i]) THEN Precompute(S, enrichments, i + 1)
    ELSE Precompute(
           Precomputed(S, enrichments[i].property,
                       Evaluate(S.R.G, S.R.cache, enrichments[i].expression,
                                Context(<<>>, EmptyMap, EmptyMap))),
           enrichments, i + 1)

\* _evaluate_rules: the value of the first rule whose condition holds; a
\* condition that raises is passed over; None when no rule matches
RECURSIVE EvaluateRules(_, _, _, _)
RECURSIVE RulesNext(_, _, _, _, _)
\* a rule list in which a later matching rule overrides an earlier one
RulesNextOverridden(R, rules, context, i, r) ==
    IF r.ok /\ Truthy(r.val) /\ i = Len(rules)
    THEN [R |-> [R EXCEPT !.cache = r.cache], ok |-> TRUE, val |-> rules[i].value]
    ELSE EvaluateRules([R EXCEPT !.cache = r.cache, !.propErr = R.propErr \/ ~r.ok],
                       rules, context, i + 1)

RulesNext(R, rules, context, i, r) ==
    IF r.ok /\ Truthy(r.val)
    THEN [R |-> [R EXCEPT !.cache = r.cache], ok |-> TRUE, val |-> rules[i].value]
    ELSE EvaluateRules([R EXCEPT !.cache = r.cache, !.propErr = R.propErr \/ ~r.ok],
                       rules, context, i + 1)

EvaluateRules(R, rules, context, i) ==
    IF i > Len(rules) THEN [R |-> R, ok |-> TRUE, val |-> None]
    ELSE IF rules[i].condition.op = "true"
    THEN [R |-> R, ok |-> TRUE, val |-> rules[i].value]
    ELSE RulesNext(R, rules, context, i,
                   Evaluate(R.G, R.cache, rules[i].condition, context))

WithRun(R, r) == [R |-> [R EXCEPT !.cache = r.cache], ok |-> r.ok, val |-> r.val]

\* lines 375-387: the value of one enrichment for one node
EnrichmentValue(R, e, precomputed, context) ==
    IF "rules" \in DOMAIN e THEN EvaluateRules(R, e.rules, context, 1)
    ELSE IF "expression" \in DOMAIN e
    THEN IF e.property \in DOMAIN precomputed
         THEN [R |-> R, ok |-> TRUE, val |-> precomputed[e.property]]
         ELSE WithRun(R, Evaluate(R.G, R.cache, e.expression, context))
    ELSE [R |-> R, ok |-> TRUE, val |-> e.value]

\* an assignment that replaces the node's attribute dict by the one property
SetPropertyOnly(G, node_id, prop_name, value) ==
    [G EXCEPT !.nodes[node_id] = prop_name :> value]

\* self.graph.nodes[node_id][prop_name] = value
SetProperty(G, node_id, prop_name, value) ==
    [G EXCEPT !.nodes[node_id] = Update(G.nodes[node_id], prop_name :> value)]

\* lines 389-398: the value is rounded and written, or the enrichment is
\* skipped when its computation raised
Enriched(node_id, e, v) ==
    IF v.ok
    THEN [v.R EXCEPT !.G = SetProperty(v.R.G, node_id, e.property, PyRound(e, v.val))]
    ELSE [v.R EXCEPT !.propErr = TRUE]

\* the enrichment loop for one node (lines 371-398)
RECURSIVE EnrichNode(_, _, _, _, _)
EnrichNode(R, node_id, enrichments, precomputed, i) ==
    IF i > Len(enrichments) THEN R
    ELSE IF DOMAIN enrichments[i] \cap {"rules", "expression", "value"} = {}
    THEN EnrichNode(R, node_id, enrichments, precomputed, i + 1)
    ELSE EnrichNode(
           Enriched(node_id, enrichments[i],
                    EnrichmentValue(R, enrichments[i], precomputed,
                                    Context(<<"node">>, "node" :> R.G.nodes[node_id],
                                            precomputed))),
           node_id, enrichments, precomputed, i + 1)

RECURSIVE EnrichFrom(_, _, _, _, _)
EnrichFrom(R, target_nodes, enrichments, precomputed, i) ==
    IF i > Len(target_nodes) THEN R
    ELSE EnrichFrom(EnrichNode(R, target_nodes[i], enrichments, precomputed, 1),
                    target_nodes, enrichments, precomputed, i + 1)

EnrichTargets(S, target_nodes, enrichments) ==
    IF ~S.R.ok THEN S.R
    ELSE [EnrichFrom(S.R, target_nodes, enrichments, S.precomputed, 1)
            EXCEPT !.count = Len(target_nodes)]

\* _apply_enrich_properties: the targets come from a scan of the graph, the
\* cache is cleared, then precomputation, then the node loop
ApplyEnrichPropertiesRule(G, c, map, trans) ==
    EnrichTargets(Precompute([R |-> Run(G, EmptyMap), precomputed |-> EmptyMap],
                             trans.enrichments, 1),
                  NodesWithLabel(G, trans.target_entity), trans.enrichments)

----------------------------------------------------------------------------
(* aggregation *)

\* lines 470-486: the rule's own reduction.  An unknown function gives 0;
\* None among the values makes sum()/max()/min() raise
RuleReduce(function, values) ==
    IF Len(values) = 0 \/ function \notin {"avg", "sum", "max", "min"} THEN Good(Num(0))
    ELSE IF function \in {"max", "min"} /\ Len(values) = 1 THEN Good(values[1])
    ELSE IF ~AllNum(values) THEN Bad
    ELSE CASE function = "avg" -> Good(MeanOf(values))
           [] function = "sum" -> Good(SumOf(values, 1))
           [] function = "max" -> Good(MaxOf(values))
           [] OTHER -> Good(MinOf(values))

AggField(d) == IF "field" \in DOMAIN d THEN d.field ELSE ""

AggValue(G, aggregate_nodes, d) ==
    IF d.function = "count" THEN Good(Num(Len(aggregate_nodes)))
    ELSE RuleReduce(d.function,
                    ValuesOf(G, SelectSeq(aggregate_nodes,
                                          LAMBDA n : AggField(d) \in DOMAIN G.nodes[n]),
                             AggField(d)))

AggTaken(A, d, r) ==
    IF r.ok THEN [ok |-> TRUE, values |-> Update(A.values, d.name :> PyRound(d, r.val))]
    ELSE [ok |-> FALSE, values |-> A.values]

\* lines 465-492
RECURSIVE AggValues(_, _, _, _, _)
AggValues(G, aggregate_nodes, aggregations, i, A) ==
    IF ~A.ok \/ i > Len(aggregations) THEN A
    ELSE AggValues(G, aggregate_nodes, aggregations, i + 1,
                   AggTaken(A, aggregations[i],
                            AggValue(G, aggregate_nodes, aggregations[i])))

AggSourced(P, d, s) ==
    IF s.ok THEN [ok |-> TRUE, properties |-> Update(P.properties, d.name :> s.val)]
    ELSE [ok |-> FALSE, properties |-> P.properties]

\* lines 502-506: value and source properties, outside any try block
RECURSIVE AggProperties(_, _, _, _)
AggProperties(properties_def, context, i, P) ==
    IF ~P.ok \/ i > Len(properties_def) THEN P
    ELSE IF "value" \in DOMAIN properties_def[i]
    THEN AggProperties(properties_def, context, i + 1,
                       [P EXCEPT !.properties =
                            Update(@, properties_def[i].name :> properties_def[i].value)])
    ELSE IF "source" \notin DOMAIN properties_def[i]
    THEN AggProperties(properties_def, context, i + 1, P)
    ELSE AggProperties(properties_def, context, i + 1,
                       AggSourced(P, properties_def[i],
                                  ResolveSource(properties_def[i].source, context)))

RECURSIVE AddEdgesTo(_, _, _, _, _)
AddEdgesTo(G, node_id, targets, label, i) ==
    IF i > Len(targets) THEN G
    ELSE AddEdgesTo(AddEdge(G, node_id, targets[i], "label" :> Str(label)),
                    node_id, targets, label, i + 1)

\* lines 513-522: the two edge shapes an aggregation rule knows
RECURSIVE AggEdges(_, _, _, _, _, _)
AggEdges(G, group_node, node_id, aggregate_nodes, edges_def, i) ==
    IF i > Len(edges_def) THEN G
    ELSE AggEdges(
           IF edges_def[i].from = "facility" /\ edges_def[i].to = "new_node"
           THEN AddEdge(G, group_node, node_id, "label" :> Str(edges_def[i].label))
           ELSE IF edges_def[i].from = "new_node" /\ edges_def[i].to = "aggregated_nodes"
           THEN AddEdgesTo(G, node_id, aggregate_nodes, edges_def[i].label, 1)
           ELSE G,
           group_node, node_id, aggregate_nodes, edges_def, i + 1)

\* lines 508-522: the summary node is added, then its edges
AggAdd(R, trans, group_node, aggregate_nodes, nid, P) ==
    IF ~nid.ok \/ ~P.ok THEN Raised(R, R.cache)
    ELSE [R EXCEPT !.count = @ + 1,
                   !.G = AggEdges(AddNode(R.G, nid.id, P.properties, TRUE),
                                  group_node, nid.id, aggregate_nodes, trans.edges, 1)]

\* lines 494-506: the id and the properties, from {"facility": ..., **agg_values}
AggNode(R, trans, group_node, aggregate_nodes, A, context) ==
    IF ~A.ok THEN Raised(R, R.cache)
    ELSE AggAdd(R, trans, group_node, aggregate_nodes,
                GenerateNodeIdFromTemplate(trans.node_id_template, context, 1),
                AggProperties(trans.properties, context, 1,
                              [ok |-> TRUE,
                               properties |-> Update("label" :> Str(trans.output_entity),
                                                     A.values)]))

AggGroupValues(R, trans, group_node, aggregate_nodes, A) ==
    AggNode(R, trans, group_node, aggregate_nodes, A,
            Context(<<"facility">>, "facility" :> R.G.nodes[group_node], A.values))

\* lines 453-462: one group node and its successors of the aggregated label
AggGroup(R, trans, group_node, aggregate_nodes) ==
    IF Len(aggregate_nodes) = 0 THEN R
    ELSE AggGroupValues(R, trans, group_node, aggregate_nodes,
                        AggValues(R.G, aggregate_nodes, trans.aggregations, 1,
                                  [ok |-> TRUE, values |-> EmptyMap]))

\* the loop of _apply_aggregation over the group nodes
RECURSIVE AggregateFrom(_, _, _, _)
AggregateFrom(R, trans, group_nodes, i) ==
    IF ~R.ok \/ i > Len(group_nodes) THEN R
    ELSE AggregateFrom(
           AggGroup(R, trans, group_nodes[i],
                    SelectSeq(Successors(R.G, group_nodes[i]),
                              LAMBDA n : Get(R.G.nodes[n], "label")
                                            = Str(trans.aggregate_entity))),
           trans, group_nodes, i + 1)

ApplyAggregationRule(G, c, map, trans) ==
    AggregateFrom(Run(G, c), trans, GetNodesByEntity(map, trans.group_by_entity), 1)

----------------------------------------------------------------------------
(* The rule document: the rules a run may be given, by kind.  Ordered       *)
(* mappings of the document (source_entities, properties, aggregations) are *)
(* sequences of named entries.                                              *)

CrossLinkRules ==
    { [id |-> "x_ab", type |-> "cross_link",
       from_entity |-> "A", to_entity |-> "B", link_label |-> "LINK",
       condition |-> [type |-> "field_match",
                      from_expression |-> Field("from", "id"),
                      to_expression |-> Field("to", "facility_id")]],
      [id |-> "x_da", type |-> "cross_link",
       from_entity |-> "D", to_entity |-> "A", link_label |-> "OF",
       condition |-> [type |-> "field_match",
                      from_expression |-> Field("from", "facility_id"),
                      to_expression |-> Field("to", "id")]],
      [id |-> "x_bb", type |-> "cross_link",
       from_entity |-> "B", to_entity |-> "B", link_label |-> "BELOW",
       condition |-> [type |-> "expression",
                      expression |-> Bin("lt", Field("from", "x"), Field("to", "x"))]] }

DerivedNodeRules ==
    { [id |-> "d_one", type |-> "derived_node", output_entity |-> "D",
       source_entities |-> << [alias |-> "b", entity |-> "B"] >>,
       join_condition |-> [type |-> "expression", expression |-> Lit(Bool(TRUE))],
       node_id_template |-> << [lit |-> "D_"], [ref |-> Field("b", "id")] >>,
       properties |-> << [name |-> "x", source |-> Field("b", "x")] >>,
       edges |-> << [from |-> "b", to |-> "new_node", label |-> "DERIVES"] >>],
      [id |-> "d_two", type |-> "derived_node", output_entity |-> "D",
       source_entities |-> << [alias |-> "b", entity |-> "B"],
                              [alias |-> "c", entity |-> "B"] >>,
       join_condition |-> [type |-> "field_match",
                           from_expression |-> Field("b", "id"),
                           to_expression |-> Field("c", "id")],
       node_id_template |-> << [lit |-> "D_"], [ref |-> Field("b", "facility_id")] >>,
       properties |-> << [name |-> "facility_id", source |-> Field("b", "facility_id")],
                         [name |-> "x", expression |-> Bin("mul", Field("b", "x"), Lit(Num(2)))],
                         [name |-> "total", expression |-> Agg("sum", "B", "x")],
                         [name |-> "share",
                          expression |-> Bin("div", Field("b", "x"), Agg("count", "A", ""))] >>,
       edges |-> << [from |-> "facility", to |-> "new_node", label |-> "HAS_D"] >>] }

EnrichPropertiesRules ==
    { [id |-> "e_rate", type |-> "enrich_properties", target_entity |-> "B",
       enrichments |-> <<
          [property |-> "rating",
           rules |-> << [condition |-> Bin("lt", Field("node", "x"), Agg("max", "B", "x")),
                         value |-> Str("low")],
                        [condition |-> [op |-> "true"], value |-> Str("high")] >>],
          [property |-> "twice",
           expression |-> Bin("mul", Field("node", "x"), Lit(Num(2)))],
          [property |-> "under",
           expression |-> Bin("lt", Field("node", "x"), Agg("max", "B", "x"))],
          [property |-> "x",
           expression |-> Bin("mul", Field("node", "x"), Lit(Num(2)))] >>],
      [id |-> "e_label", type |-> "enrich_properties", target_entity |-> "A",
       enrichments |-> << [property |-> "label", value |-> None],
                          [property |-> "stamped", expression |-> Now] >>],
      [id |-> "e_share", type |-> "enrich_properties", target_entity |-> "B",
       enrichments |-> <<
          [property |-> "below",
           expression |-> Bin("lt", Field("node", "x"), Agg("avg", "B", "x"))],
          [property |-> "checked", value |-> Bool(TRUE)] >>] }

AggregationRules ==
    { [id |-> "g_sum", type |-> "aggregation", output_entity |-> "S",
       group_by_entity |-> "A", aggregate_entity |-> "B",
       node_id_template |-> << [lit |-> "S_"], [ref |-> Field("facility", "id")] >>,
       aggregations |-> << [name |-> "total", function |-> "sum", field |-> "x"],
                           [name |-> "n", function |-> "count"] >>,
       properties |-> << [name |-> "facility_id", source |-> Field("facility", "id")] >>,
       edges |-> << [from |-> "facility", to |-> "new_node", label |-> "HAS_SUMMARY"],
                    [from |-> "new_node", to |-> "aggregated_nodes", label |-> "SUMS"] >>],
      [id |-> "g_max", type |-> "aggregation", output_entity |-> "M",
       group_by_entity |-> "A", aggregate_entity |-> "B",
       node_id_template |-> << [lit |-> "M_"], [ref |-> Field("facility", "name")] >>,
       aggregations |-> << [name |-> "top", function |-> "max", field |-> "x"] >>,
       properties |-> <<>>,
       edges |-> << [from |-> "facility", to |-> "new_node", label |-> "HAS_MAX"] >>] }

----------------------------------------------------------------------------
(* MetadataLoader: the validators and the documents a driver may load *)

\* the names of the entities before position i that have one
EntityNamesBefore(entities, i) ==
    {entities[j].name : j \in {k \in 1..(i - 1) : "name" \in DOMAIN entities[k]}}

\* validate_schema: TRUE when it returns, FALSE when it raises ValueError
ValidateSchema(schema) ==
    /\ "version" \in DOMAIN schema
    /\ "entities" \in DOMAIN schema
    /\ Len(schema.entities) > 0
    /\ \A i \in DOMAIN schema.entities :
          /\ "name" \in DOMAIN schema.entities[i]
          /\ schema.entities[i].name \notin EntityNamesBefore(schema.entities, i)
          /\ "source" \in DOMAIN schema.entities[i]
          /\ "properties" \in DOMAIN schema.entities[i]
          /\ DOMAIN schema.entities[i] \cap {"id_field", "id_template"} # {}
    /\ "relationships" \in DOMAIN schema =>
          \A i \in DOMAIN schema.relationships :
             /\ "name" \in DOMAIN schema.relationships[i]
             /\ "from_entity" \in DOMAIN schema.relationships[i]
             /\ "to_entity" \in DOMAIN schema.relationships[i]
             /\ schema.relationships[i].from_entity
                   \in EntityNamesBefore(schema.entities, Len(schema.entities) + 1)
             /\ schema.relationships[i].to_entity
                   \in EntityNamesBefore(schema.entities, Len(schema.entities) + 1)

\* _validate_cross_link, _validate_derived_node, _validate_enrich_properties,
\* _validate_aggregation: the fields a rule of each type must have
RequiredFields(trans_type) ==
    CASE trans_type = "cross_link" ->
            {"from_entity", "to_entity", "link_label", "condition"}
      [] trans_type = "derived_node" ->
            {"output_entity", "source_entities", "join_condition", "properties"}
      [] trans_type = "enrich_properties" -> {"target_entity", "enrichments"}
      [] OTHER -> {"output_entity", "group_by_entity", "aggregate_entity", "aggregations"}

TransIdsBefore(trans_list, i) ==
    {trans_list[j].id : j \in {k \in 1..(i - 1) : "id" \in DOMAIN trans_list[k]}}

\* validate_transformations: TRUE when it returns, FALSE when it raises
ValidateTransformations(transformations) ==
    /\ "version" \in DOMAIN transformations
    /\ "transformations" \in DOMAIN transformations
    /\ \A i \in DOMAIN transformations.transformations :
          /\ "id" \in DOMAIN transformations.transformations[i]
          /\ transformations.transformations[i].id
                \notin TransIdsBefore(transformations.transformations, i)
          /\ "type" \in DOMAIN transformations.transformations[i]
          /\ transformations.transformations[i].type
                \in {"cross_link", "derived_node", "enrich_properties", "aggregation"}
          /\ RequiredFields(transformations.transformations[i].type)
                \subseteq DOMAIN transformations.transformations[i]

\* a filter that keeps every entry, whatever its flag
IsEnabledWhateverFlag(t) == TRUE

IsEnabled(t) == IF "enabled" \in DOMAIN t THEN Truthy(t.enabled) ELSE TRUE

\* get_enabled_transformations: [t for t in ... if t.get("enabled", True)]
GetEnabledTransformations(transformations) == SelectSeq(transformations, IsEnabled)

\* the schema documents a driver may be given: the schema of the model and
\* documents with one structural defect each
SchemaDocuments ==
    { Schema,
      [entities |-> Schema.entities, relationships |-> Schema.relationships],
      [version |-> "1.0", entities |-> <<>>],
      [version |-> "1.0", entities |-> << Schema.entities[1], Schema.entities[1] >>],
      [version |-> "1.0",
       entities |-> << [name |-> "A", source |-> [path |-> "a.csv"],
                        properties |-> <<>>] >>],
      [version |-> "1.0", entities |-> Schema.entities,
       relationships |-> << [name |-> "HAS", from_entity |-> "A", to_entity |-> "Z",
                             join_condition |-> [type |-> "field_match",
                                                 from_field |-> "id",
                                                 to_field |-> "facility_id"]] >>] }

RuleById(id) ==
    CHOOSE r \in CrossLinkRules \cup DerivedNodeRules
                   \cup EnrichPropertiesRules \cup AggregationRules : r.id = id

\* the rule documents a driver may be given: a well-formed one, and
\* documents with one structural defect each
RuleDocuments ==
    { [version |-> "1.0",
       transformations |-> << RuleById("d_two"), RuleById("x_da") >>],
      [transformations |-> << RuleById("x_ab") >>],
      [version |-> "1.0",
       transformations |-> << RuleById("x_ab"), RuleById("x_ab") >>],
      [version |-> "1.0",
       transformations |-> << [type |-> "cross_link", from_entity |-> "A",
                               to_entity |-> "B", link_label |-> "LINK",
                               condition |-> RuleById("x_ab").condition] >>],
      [version |-> "1.0",
       transformations |-> << [id |-> "u_1", type |-> "merge_nodes"] >>],
      [version |-> "1.0",
       transformations |-> << [id |-> "x_1", type |-> "cross_link", from_entity |-> "A",
                               to_entity |-> "B", link_label |-> "LINK"] >>] }

\* the entries with `"enabled": false` a rule document may hold
DisabledRules ==
    { Update(RuleById("d_two"), "enabled" :> Bool(FALSE)) }

----------------------------------------------------------------------------
(* The state machine *)

NoRule == [type |-> "none"]

Graph == [nodes |-> nodes, order |-> order, edges |-> edges,
          explicit |-> explicit, ruleMade |-> ruleMade, dupHit |-> FALSE,
          now |-> Epoch]

Snapshot == [nodes |-> nodes, order |-> order, edges |-> edges, ruleMade |-> ruleMade]

Commit(G) ==
    /\ nodes' = G.nodes
    /\ order' = G.order
    /\ edges' = G.edges
    /\ explicit' = G.explicit
    /\ ruleMade' = G.ruleMade
    /\ dupHit' = G.dupHit
    /\ pre' = Snapshot

Init ==
    /\ nodes = EmptyMap
    /\ order = <<>>
    /\ edges = <<>>
    /\ entity_node_map = EmptyMap
    /\ cache = EmptyMap
    /\ transformation_log = <<>>
    /\ pc = "load"
    /\ nextEntity = 1
    /\ nextRel = 1
    /\ explicit = {}
    /\ dupHit = FALSE
    /\ pre = [nodes |-> EmptyMap, order |-> <<>>, edges |-> <<>>, ruleMade |-> {}]
    /\ ruleMade = {}
    /\ lastRule = NoRule
    /\ seen = EmptyMap
    /\ startCache = EmptyMap
    /\ propErr = FALSE
    /\ loaded = {}
    /\ rejected = FALSE
    /\ declared = <<>>
    /\ skipped = NoRule
    /\ emissions = <<>>

\* load_schema, first call of both drivers: the document is read and
\* validated.  main_generic goes on to load_transformations, main_ghg_demo
\* to build_graph.
LoadSchema ==
    /\ pc = "load"
    /\ loaded = {}
    /\ \E schema \in SchemaDocuments :
         IF ValidateSchema(schema)
         THEN /\ loaded' = {"schema"}
              /\ pc' \in {"load", "build"}
              /\ UNCHANGED rejected
         ELSE /\ pc' = "failed"
              /\ rejected' = TRUE
              /\ UNCHANGED loaded
    /\ UNCHANGED <<emissions, nodes, order, edges, entity_node_map, cache, transformation_log,
                   nextEntity, nextRel, explicit, dupHit, pre, ruleMade, lastRule,
                   seen, startCache, propErr, declared, skipped>>

\* load_transformations: before build_graph in main_generic, after it in
\* main_ghg_demo
LoadTransformations ==
    /\ pc = "load"
    /\ loaded = {"schema"}
    /\ \E transformations \in RuleDocuments :
         IF ValidateTransformations(transformations)
         THEN /\ loaded' = {"schema", "transformations"}
              /\ pc' = IF nextRel > Len(Schema.relationships) THEN "rules" ELSE "build"
              /\ UNCHANGED rejected
         ELSE /\ pc' = "failed"
              /\ rejected' = TRUE
              /\ UNCHANGED loaded
    /\ UNCHANGED <<emissions, nodes, order, edges, entity_node_map, cache, transformation_log,
                   nextEntity, nextRel, explicit, dupHit, pre, ruleMade, lastRule,
                   seen, startCache, propErr, declared, skipped>>

\* build_graph, first loop: _load_entity(entity) for the next schema entity
LoadEntity ==
    /\ pc = "build"
    /\ nextEntity <= Len(Schema.entities)
    /\ \E rows \in BSeq(Rows(Schema.entities[nextEntity].name), MaxRows) :
         LET entity == Schema.entities[nextEntity]
             node_ids == [i \in 1..Len(rows) |-> GenerateNodeId(entity, rows[i])]
         IN  /\ Commit(LoadRows(Graph, entity, rows, 1))
             /\ entity_node_map' = Update(entity_node_map, entity.name :> node_ids)
    /\ nextEntity' = nextEntity + 1
    /\ UNCHANGED <<emissions, cache, transformation_log, pc, nextRel, lastRule, seen,
                   startCache, propErr, loaded, rejected, declared, skipped>>

\* build_graph, second loop: _create_relationship(relationship)
CreateRelationship ==
    /\ pc = "build"
    /\ nextEntity > Len(Schema.entities)
    /\ nextRel <= Len(Schema.relationships)
    /\ LET rel == Schema.relationships[nextRel]
       IN  Commit(RelateFrom(Graph, rel,
                             GetNodesByEntity(entity_node_map, rel.from_entity),
                             GetNodesByEntity(entity_node_map, rel.to_entity), 1, 1))
    /\ nextRel' = nextRel + 1
    /\ pc' = IF nextRel < Len(Schema.relationships) THEN "build"
             ELSE IF "transformations" \in loaded THEN "rules" ELSE "load"
    /\ UNCHANGED <<emissions, entity_node_map, cache, transformation_log, nextEntity, lastRule,
                   seen, startCache, propErr, loaded, rejected, declared, skipped>>

\* a log that lists the latest rule first
LoggedFirst(log, trans, count) ==
    <<[id |-> trans.id, type |-> trans.type, count |-> count]>> \o log

\* self.transformation_log.append({"id": ..., "type": ..., "count": ...}), the
\* last statement of every _apply_* method
Logged(log, trans, count) ==
    Append(log, [id |-> trans.id, type |-> trans.type, count |-> count])

\* The common end of a rule step of apply_transformations' loop: the rule
\* returned (its log entry is appended, the loop goes on) or raised (the
\* except block re-raises, the loop is left).
EndRule(trans, R, fetched, found) ==
    /\ Commit(R.G)
    /\ cache' = R.cache
    /\ pc' = IF R.ok THEN "rules" ELSE "failed"
    /\ transformation_log' =
          IF R.ok THEN Logged(transformation_log, trans, R.count)
          ELSE transformation_log
    /\ lastRule' = trans
    /\ seen' = fetched
    /\ startCache' = found
    /\ propErr' = R.propErr
    /\ declared' = Append(declared, trans.id)
    /\ skipped' = IF trans \in DisabledRules THEN trans ELSE NoRule
    /\ UNCHANGED <<emissions, entity_node_map, nextEntity, nextRel, loaded, rejected>>

\* a loop that would go on to the next rule after a rule raised
CanStartRuleAfterFailure ==
    /\ pc \in {"rules", "failed"}
    /\ Len(transformation_log) < MaxRules

\* the loop of apply_transformations is between two rules
CanStartRule ==
    /\ pc = "rules"
    /\ Len(transformation_log) < MaxRules

Fetched(labels) ==
    [l \in labels |-> Range(GetNodesByEntity(entity_node_map, l))]

ApplyCrossLink ==
    /\ CanStartRule
    /\ \E trans \in CrossLinkRules :
         EndRule(trans, ApplyCrossLinkRule(Graph, cache, entity_node_map, trans),
                 Fetched({trans.from_entity, trans.to_entity}), cache)

ApplyDerivedNode ==
    /\ CanStartRule
    /\ \E trans \in DerivedNodeRules :
         EndRule(trans, ApplyDerivedNodeRule(Graph, cache, entity_node_map, trans),
                 Fetched({trans.source_entities[i].entity :
                            i \in DOMAIN trans.source_entities}), cache)

\* the expression calls now()
RECURSIVE HasNow(_)
HasNow(e) ==
    CASE e.op = "now" -> TRUE
      [] e.op \in {"lit", "field", "agg", "true"} -> FALSE
      [] OTHER -> HasNow(e.l) \/ HasNow(e.r)

\* the readings of the clock a rule's enrichments may see
Readings(trans) ==
    IF \E k \in DOMAIN trans.enrichments :
          /\ "expression" \in DOMAIN trans.enrichments[k]
          /\ HasNow(trans.enrichments[k].expression)
    THEN Clock ELSE {Epoch}

ApplyEnrichProperties ==
    /\ CanStartRule
    /\ \E trans \in EnrichPropertiesRules : \E t \in Readings(trans) :
         EndRule(trans, ApplyEnrichPropertiesRule([Graph EXCEPT !.now = t], cache,
                                                  entity_node_map, trans),
                 [l \in {trans.target_entity} |-> Range(NodesWithLabel(Graph, l))],
                 EmptyMap)

ApplyAggregation ==
    /\ CanStartRule
    /\ \E trans \in AggregationRules :
         EndRule(trans, ApplyAggregationRule(Graph, cache, entity_node_map, trans),
                 Fetched({trans.group_by_entity}), cache)

\* the dispatch of apply_transformations on the rule's type
ApplyRule(G, c, map, trans) ==
    CASE trans.type = "cross_link" -> ApplyCrossLinkRule(G, c, map, trans)
      [] trans.type = "derived_node" -> ApplyDerivedNodeRule(G, c, map, trans)
      [] trans.type = "enrich_properties" -> ApplyEnrichPropertiesRule(G, c, map, trans)
      [] OTHER -> ApplyAggregationRule(G, c, map, trans)

\* An entry of the rule document has `"enabled": false`: the driver hands
\* apply_transformations the list get_enabled_transformations returns,
\* which does not hold the entry.  The list is filtered before the first
\* rule is applied.
DropDisabled ==
    /\ CanStartRule
    /\ declared = <<>>
    /\ \E trans \in DisabledRules :
         IF GetEnabledTransformations(<<trans>>) = <<>>
         THEN /\ skipped' = trans
              /\ UNCHANGED <<emissions, nodes, order, edges, entity_node_map, cache,
                             transformation_log, pc, nextEntity, nextRel, explicit,
                             dupHit, pre, ruleMade, lastRule, seen, startCache,
                             propErr, loaded, rejected, declared>>
         ELSE EndRule(trans, ApplyRule(Graph, cache, entity_node_map, trans),
                      EmptyMap, cache)

\* the rule list is exhausted: apply_transformations returns
Finish ==
    /\ pc = "rules"
    /\ pc' = "done"
    /\ UNCHANGED <<emissions, nodes, order, edges, entity_node_map, cache, transformation_log,
                   nextEntity, nextRel, explicit, dupHit, pre, ruleMade, lastRule,
                   seen, startCache, propErr, loaded, rejected, declared, skipped>>

Next ==
    \/ LoadSchema
    \/ LoadTransformations
    \/ LoadEntity
    \/ CreateRelationship
    \/ ApplyCrossLink
    \/ ApplyDerivedNode
    \/ ApplyEnrichProperties
    \/ ApplyAggregation
    \/ DropDisabled
    \/ Finish

Spec == Init /\ [][Next]_vars

----------------------------------------------------------------------------
(* LPGBuilder: the repository's first builder, with the tables and labels  *)
(* written into its code                                                   *)

\* the rows facilities.csv and emissions.csv may hold
FacilityRows ==
    { [facility_id |-> "F1", facility_name |-> "Tokyo", facility_type |-> "plant",
       location |-> "Tokyo", capacity |-> 10],
      [facility_id |-> "F2", facility_name |-> "Osaka", facility_type |-> "office",
       location |-> "Osaka", capacity |-> 20] }

EmissionRows ==
    { [facility_id |-> "F1", year |-> 2024, month |-> 1, co2_emissions_kg |-> 5,
       waste_kg |-> 1, water_usage_m3 |-> 1],
      [facility_id |-> "F1", year |-> 2024, month |-> 1, co2_emissions_kg |-> 7,
       waste_kg |-> 1, water_usage_m3 |-> 1],
      [facility_id |-> "F1", year |-> 2024, month |-> 2, co2_emissions_kg |-> 5,
       waste_kg |-> 1, water_usage_m3 |-> 1],
      [facility_id |-> "F2", year |-> 2024, month |-> 11, co2_emissions_kg |-> 5,
       waste_kg |-> 1, water_usage_m3 |-> 1],
      [facility_id |-> "F9", year |-> 2024, month |-> 1, co2_emissions_kg |-> 5,
       waste_kg |-> 1, water_usage_m3 |-> 1] }

\* f"EMI_{row['facility_id']}_{row['year']}{row['month']:02d}"
RecordId(row) ==
    "EMI_" \o row.facility_id \o "_" \o ToString(row.year)
        \o (IF row.month < 10 THEN "0" ELSE "") \o ToString(row.month)

\* the loop of load_facilities
RECURSIVE LoadFacilityRows(_, _, _)
LoadFacilityRows(G, rows, i) ==
    IF i > Len(rows) THEN G
    ELSE LoadFacilityRows(
           AddNode(G, rows[i].facility_id,
                   [label |-> Str("Facility"), name |-> Str(rows[i].facility_name),
                    facility_type |-> Str(rows[i].facility_type),
                    location |-> Str(rows[i].location),
                    capacity |-> Num(rows[i].capacity)], FALSE),
           rows, i + 1)

\* one row of load_emissions: the record node, then the edge from the
\* facility id of the row
EmissionRecord(G, row) ==
    AddEdge(AddNode(G, RecordId(row),
                    [label |-> Str("EmissionRecord"), year |-> Num(row.year),
                     month |-> Num(row.month),
                     co2_emissions_kg |-> Num(row.co2_emissions_kg),
                     waste_kg |-> Num(row.waste_kg),
                     water_usage_m3 |-> Num(row.water_usage_m3)], FALSE),
            row.facility_id, RecordId(row),
            [label |-> Str("HAS_EMISSION"), year |-> Num(row.year),
             month |-> Num(row.month)])

RECURSIVE LoadEmissionRows(_, _, _)
LoadEmissionRows(G, rows, i) ==
    IF i > Len(rows) THEN G
    ELSE LoadEmissionRows(EmissionRecord(G, rows[i]), rows, i + 1)

\* LPGBuilder(): an empty MultiDiGraph
InitLPG ==
    /\ nodes = EmptyMap
    /\ order = <<>>
    /\ edges = <<>>
    /\ entity_node_map = EmptyMap
    /\ cache = EmptyMap
    /\ transformation_log = <<>>
    /\ pc = "facilities"
    /\ nextEntity = 1
    /\ nextRel = 1
    /\ explicit = {}
    /\ dupHit = FALSE
    /\ pre = [nodes |-> EmptyMap, order |-> <<>>, edges |-> <<>>, ruleMade |-> {}]
    /\ ruleMade = {}
    /\ lastRule = NoRule
    /\ seen = EmptyMap
    /\ startCache = EmptyMap
    /\ propErr = FALSE
    /\ loaded = {}
    /\ rejected = FALSE
    /\ declared = <<>>
    /\ skipped = NoRule
    /\ emissions = <<>>

\* load_facilities(csv_path)
LoadFacilities ==
    /\ pc = "facilities"
    /\ \E rows \in BSeq(FacilityRows, MaxRows) :
         Commit(LoadFacilityRows(Graph, rows, 1))
    /\ pc' = "emissions"
    /\ UNCHANGED <<entity_node_map, cache, transformation_log, nextEntity, nextRel,
                   lastRule, seen, startCache, propErr, loaded, rejected, declared,
                   skipped, emissions>>

\* load_emissions(csv_path)
LoadEmissions ==
    /\ pc = "emissions"
    /\ \E rows \in BSeq(EmissionRows, MaxRows) :
         /\ Commit(LoadEmissionRows(Graph, rows, 1))
         /\ emissions' = rows
    /\ pc' = "loaded"
    /\ UNCHANGED <<entity_node_map, cache, transformation_log, nextEntity, nextRel,
                   lastRule, seen, startCache, propErr, loaded, rejected, declared,
                   skipped>>

NextLPG ==
    \/ LoadFacilities
    \/ LoadEmissions

SpecLPG == InitLPG /\ [][NextLPG]_vars

----------------------------------------------------------------------------
(* Properties of the store contract and of the rule engine *)

\* the graph as it was before the last step
PreGraph ==
    [nodes |-> pre.nodes, order |-> pre.order, edges |-> pre.edges,
     explicit |-> {}, ruleMade |-> pre.ruleMade, dupHit |-> FALSE, now |-> Epoch]

\* the label of a node as a string, "" for a node without a string label
LabelOf(n) ==
    IF IsStr(Get(nodes[n], "label")) THEN nodes[n]["label"][2] ELSE ""

Occurrences(s, x) == Cardinality({i \in DOMAIN s : s[i] = x})

\* C1: adding an edge never creates a node: every endpoint of every edge is
\* a node that was inserted by add_node.
C1_EdgeEndpointsInserted ==
    \A i \in DOMAIN edges : edges[i].from \in explicit /\ edges[i].to \in explicit

\* C2: after build_graph and after any sequence of rules, every node of the
\* graph is listed exactly once by get_nodes_by_entity under its own label.
C2_ListedExactlyOnce ==
    pc # "build" =>
        \A n \in DOMAIN nodes :
            Occurrences(GetNodesByEntity(entity_node_map, LabelOf(n)), n) = 1

\* C3: the nodes an earlier rule added under a label are among the nodes a
\* later rule iterates over when it names that label, in whatever role.
C3_RuleMadeNodesFetched ==
    lastRule # NoRule =>
        \A l \in DOMAIN seen :
            \A n \in pre.ruleMade :
                Get(pre.nodes[n], "label") = Str(l) => n \in seen[l]

\* C4: every rule application, of every kind, starts from an empty
\* aggregation cache.
C4_CacheEmptyAtRuleStart ==
    lastRule # NoRule => startCache = EmptyMap

\* C5: add_node on an id that is already a node fails, and the nodes that
\* were there keep their label and properties.
C5_DuplicateInsertFails ==
    dupHit => /\ pc = "failed"
              /\ \A n \in DOMAIN pre.nodes : nodes[n] = pre.nodes[n]

\* C6: every id the label index lists under a label L is a node of the
\* graph whose label property is L.
C6_IndexAgreesWithLabel ==
    \A L \in DOMAIN entity_node_map :
        \A n \in Range(entity_node_map[L]) :
            n \in DOMAIN nodes /\ Get(nodes[n], "label") = Str(L)

\* C7: every node of the graph carries a label that is a string, not None.
C7_LabelIsString ==
    \A n \in DOMAIN nodes :
        "label" \in DOMAIN nodes[n] /\ IsStr(nodes[n]["label"])

\* what the graph held before the last step is still there
NothingRolledBack ==
    /\ \A n \in DOMAIN pre.nodes : n \in DOMAIN nodes
    /\ pre.ruleMade \subseteq ruleMade
    /\ Len(pre.edges) <= Len(edges)
    /\ SubSeq(edges, 1, Len(pre.edges)) = pre.edges

\* C8: a rule that raises ends the sequence: the failed run takes no further
\* step (no later rule starts, the log gets no entry for the failed rule),
\* and what the earlier rules added to the graph is still in it.
C8_FailureAborts ==
    [][/\ pc # "failed"
       /\ pc' = "failed" => /\ NothingRolledBack'
                            /\ transformation_log' = transformation_log]_vars

\* C8 happens: a rule raised after an earlier rule had added nodes and edges
C8_FailedAfterMutations ==
    /\ pc = "failed"
    /\ Len(transformation_log) >= 1
    /\ pre.ruleMade # {}
    /\ pre.ruleMade \subseteq DOMAIN nodes
    /\ Len(pre.edges) > 0

\* C9: an evaluator error in one enrichment does not fail the rule: the rule
\* completes and the enrichments that give a plain value are written to
\* every target node.
C9_EnrichmentErrorNotFatal ==
    (lastRule.type = "enrich_properties" /\ propErr) =>
        /\ pc # "failed"
        /\ \A n \in seen[lastRule.target_entity] :
              \A i \in DOMAIN lastRule.enrichments :
                  "value" \in DOMAIN lastRule.enrichments[i] =>
                      Get(nodes[n], lastRule.enrichments[i].property)
                          = lastRule.enrichments[i].value

\* a node of the first alias has a complete tuple: every other alias of
\* the rule is bound to a matching node
IsComplete(trans, n) ==
    Len(FindMatchingNodes(PreGraph, EmptyMap, entity_node_map, trans, 2, <<>>,
                          trans.source_entities[1].alias :> n).names)
        = Len(trans.source_entities) - 1

\* C10: a derived_node rule adds one node labelled output_entity for every
\* first-alias node with a complete tuple, whatever the number of aliases.
C10_OneNodePerCompleteTuple ==
    (lastRule.type = "derived_node" /\ pc = "rules") =>
        Cardinality({n \in DOMAIN nodes \ DOMAIN pre.nodes :
                        LabelOf(n) = lastRule.output_entity})
          = Cardinality({i \in DOMAIN GetNodesByEntity(entity_node_map,
                                         lastRule.source_entities[1].entity) :
                            IsComplete(lastRule,
                                GetNodesByEntity(entity_node_map,
                                    lastRule.source_entities[1].entity)[i])})

\* C11: a structural defect of the schema document or of the rule document
\* stops the run before anything was added to the graph: whenever a
\* validator rejects a document, the graph has no node and no edge.
C11_DefectFailsBeforeMutation ==
    rejected => /\ nodes = EmptyMap
                /\ edges = <<>>

\* C12: an entry of the rule document whose enabled flag is false changes
\* nothing: the step that reaches it leaves the graph, the aggregation cache
\* and the log as they were, and the loop goes on with the next entry.
C12_DisabledRuleChangesNothing ==
    [][(skipped' # NoRule /\ skipped' # skipped) =>
          UNCHANGED <<nodes, order, edges, cache, transformation_log, pc>>]_vars

\* C12 happens: a disabled entry was dropped on a built graph that holds
\* nodes the rule would have joined
C12_DisabledDropped ==
    /\ skipped # NoRule
    /\ pc = "rules"
    /\ transformation_log = <<>>
    /\ Len(NodesWithLabel(Graph, "B")) = 2

\* C13: the rules are applied one after the other in the order in which
\* the loop reaches them, and the log lists the applied rules in that
\* order, one entry per rule that ran to its end (a rule that raised has
\* none).
C13_LogInDeclaredOrder ==
    [i \in DOMAIN transformation_log |-> transformation_log[i].id]
        = IF pc = "failed" /\ ~rejected
          THEN SubSeq(declared, 1, Len(declared) - 1)
          ELSE declared

\* C13 happens: two different rules were applied
C13_TwoRulesApplied ==
    /\ Len(transformation_log) = 2
    /\ transformation_log[1].id # transformation_log[2].id
    /\ declared = <<transformation_log[1].id, transformation_log[2].id>>

\* the aggregates the rules of the model evaluate
Aggregates == {Agg(f, "B", "x") : f \in {"avg", "sum", "max", "min"}}

\* C14: once a rule has evaluated an aggregate, every further evaluation of
\* it returns that same value, also after the rule has changed the
\* aggregated property: evaluating a cached aggregate against the graph as
\* the rule left it gives the cached value and leaves the cache as it is.
C14_AggregateStableWithinRule ==
    \A a \in Aggregates :
        CacheKey(a.func, a.ent, a.field) \in DOMAIN cache =>
            EvaluateAggregation(Graph, cache, a.func, a.ent, a.field)
                = Ok(cache[CacheKey(a.func, a.ent, a.field)], cache)

\* C14 happens: an enrich_properties rule evaluated max(B.x) and then
\* changed x, so that the aggregate computed on the graph as it is now
\* differs from the value the rule worked with
C14_AggregateChangedUnderRule ==
    /\ lastRule.type = "enrich_properties"
    /\ pc = "rules"
    /\ "max_B_x" \in DOMAIN cache
    /\ Reduce("max", CollectValues(Graph, "B", "x")) # Good(cache["max_B_x"])
    /\ Reduce("max", CollectValues(Graph, "B", "x")).ok

\* a placeholder of the template refers to a field the alias's data lacks
MissingField(template, alias, data) ==
    \E i \in DOMAIN template :
        /\ "ref" \in DOMAIN template[i]
        /\ template[i].ref.ent = alias
        /\ template[i].ref.field \notin DOMAIN data

\* the successors of a group node that carry the aggregated label, before
\* the last step
MembersBefore(trans, g) ==
    SelectSeq(Successors(PreGraph, g),
              LAMBDA n : Get(pre.nodes[n], "label") = Str(trans.aggregate_entity))

\* C15: a node id is never made from a template placeholder that refers to
\* a missing field: a derived_node or aggregation rule that reaches a tuple
\* or group whose data lacks a field its node_id_template names fails, and
\* it adds no node.
C15_MissingTemplateFieldFatal ==
    /\ lastRule.type = "aggregation" =>
          \A g \in seen[lastRule.group_by_entity] :
              (/\ MissingField(lastRule.node_id_template, "facility", pre.nodes[g])
               /\ Len(MembersBefore(lastRule, g)) > 0)
                 => /\ pc = "failed"
                    /\ DOMAIN nodes = DOMAIN pre.nodes
    /\ lastRule.type = "derived_node" =>
          \A b \in seen[lastRule.source_entities[1].entity] :
              (/\ MissingField(lastRule.node_id_template,
                               lastRule.source_entities[1].alias, pre.nodes[b])
               /\ IsComplete(lastRule, b))
                 => /\ pc = "failed"
                    /\ DOMAIN nodes = DOMAIN pre.nodes

\* the k-th pair of the cartesian product of F and T, F-major
PairAt(F, T, k) ==
    <<F[((k - 1) \div Len(T)) + 1], T[((k - 1) % Len(T)) + 1]>>

IsTrue(r) == r.ok /\ r.val

\* the pairs of F x T, F-major, for which the rule's condition is true on
\* the graph as it was when the rule started
LinkedPairs(trans, F, T) ==
    SelectSeq([k \in 1..(Len(F) * Len(T)) |-> PairAt(F, T, k)],
              LAMBDA p : IsTrue(EvaluateCondition(PreGraph, startCache, trans.condition,
                                                  FromTo(PreGraph, p[1], p[2]))))

LinkEdges(trans, pairs) ==
    [k \in DOMAIN pairs |->
        [from |-> pairs[k][1], to |-> pairs[k][2],
         attrs |-> "label" :> Str(trans.link_label)]]

\* C16: a cross_link rule that returned has added exactly one edge f -> t
\* labelled link_label for every pair (f, t) of a node labelled from_entity
\* and a node labelled to_entity whose condition is true, from-major in
\* insertion order, and no other edge.
C16_OneEdgePerTruePair ==
    (lastRule.type = "cross_link" /\ pc = "rules") =>
        SubSeq(edges, Len(pre.edges) + 1, Len(edges))
            = LinkEdges(lastRule,
                        LinkedPairs(lastRule,
                                    NodesWithLabel(PreGraph, lastRule.from_entity),
                                    NodesWithLabel(PreGraph, lastRule.to_entity)))

\* the nodes labelled group_by_entity that had at least one successor
\* labelled aggregate_entity when the rule started
GroupsWithMembers(trans) ==
    {g \in Range(NodesWithLabel(PreGraph, trans.group_by_entity)) :
        Len(MembersBefore(trans, g)) > 0}

\* C17: an aggregation rule that returned, on a graph that had no node
\* labelled output_entity, leaves exactly one node labelled output_entity
\* per group_by node with at least one successor labelled aggregate_entity,
\* reports that number, and adds no edge at a group_by node without such a
\* successor.
C17_OneSummaryPerGroup ==
    (/\ lastRule.type = "aggregation" /\ pc = "rules"
     /\ NodesWithLabel(PreGraph, lastRule.output_entity) = <<>>) =>
        /\ Len(NodesWithLabel(Graph, lastRule.output_entity))
              = Cardinality(GroupsWithMembers(lastRule))
        /\ transformation_log[Len(transformation_log)].count
              = Cardinality(GroupsWithMembers(lastRule))
        /\ \A g \in Range(NodesWithLabel(PreGraph, lastRule.group_by_entity))
                      \ GroupsWithMembers(lastRule) :
              \A i \in (Len(pre.edges) + 1)..Len(edges) :
                  edges[i].from # g /\ edges[i].to # g

\* the non-null values of a field over a sequence of nodes (an absent
\* field reads as null)
NonNullValues(G, ns, field) ==
    SelectSeq([i \in 1..Len(ns) |-> Get(G.nodes[ns[i]], field)], LAMBDA v : v # None)

\* the aggregate of non-null values, 0 when there is none
OverNonNull(function, values) ==
    IF Len(values) = 0 THEN Num(0) ELSE Reduce(function, values).val

Yields(r, v) == r.ok /\ r.val = v

\* the summary node of group g carries, for every aggregation that is not a
\* count, the aggregate of the members' non-null values
SummaryOverNonNull(trans, g, n) ==
    \A k \in DOMAIN trans.aggregations :
        trans.aggregations[k].function # "count" =>
            Get(nodes[n], trans.aggregations[k].name)
                = OverNonNull(trans.aggregations[k].function,
                              NonNullValues(PreGraph, MembersBefore(trans, g),
                                            trans.aggregations[k].field))

\* C18: aggregates are computed over non-null values only and are 0 when no
\* non-null value remains: between two rules every aggregate of an expression
\* evaluates to the aggregate of the non-null values of the label's nodes,
\* and an aggregation rule gives every group it visits with a non-empty
\* collection a summary node whose aggregates are those of the members'
\* non-null values.
C18_AggregatesIgnoreNulls ==
    /\ pc = "rules" =>
          \A a \in Aggregates :
              Yields(EvaluateAggregation(Graph, EmptyMap, a.func, a.ent, a.field),
                     OverNonNull(a.func,
                                 NonNullValues(Graph, NodesWithLabel(Graph, a.ent), a.field)))
    /\ lastRule.type = "aggregation" =>
          \A g \in seen[lastRule.group_by_entity] :
              Len(MembersBefore(lastRule, g)) > 0 =>
                  \E i \in (Len(pre.edges) + 1)..Len(edges) :
                      /\ edges[i].from = g
                      /\ LabelOf(edges[i].to) = lastRule.output_entity
                      /\ SummaryOverNonNull(lastRule, g, edges[i].to)

\* the tuple _find_matching_nodes binds to first-alias node n on the graph
\* as it was when the rule started, and the context of that tuple
TupleOf(trans, n) ==
    FindMatchingNodes(PreGraph, EmptyMap, entity_node_map, trans, 2, <<>>,
                      trans.source_entities[1].alias :> n)

TupleNames(trans, m) == <<trans.source_entities[1].alias>> \o m.names

TupleContext(trans, m) ==
    BindContext(PreGraph, TupleNames(trans, m), m.ids, Range(TupleNames(trans, m)))

\* an edge from -> to with the label was added by the last step, unless one
\* of its ends resolves to nothing
EdgeStands(from_node, to_node, label) ==
    (Truthy(from_node) /\ Truthy(to_node)) =>
        \E i \in (Len(pre.edges) + 1)..Len(edges) :
            edges[i] = [from |-> from_node[2], to |-> to_node[2],
                        attrs |-> "label" :> Str(label)]

\* the node of a tuple stands: it has the output label, every property whose
\* computation succeeds, and its declared edges
DerivedStands(trans, context, node_id) ==
    /\ node_id \in DOMAIN nodes
    /\ LabelOf(node_id) = trans.output_entity
    /\ \A k \in DOMAIN trans.properties :
          PropertyValue(Run(PreGraph, startCache), trans.properties[k], context).ok
              => trans.properties[k].name \in DOMAIN nodes[node_id]
    /\ \A k \in DOMAIN trans.edges :
          EdgeStands(ResolveNodeReference(trans.edges[k].from, node_id, context),
                     ResolveNodeReference(trans.edges[k].to, node_id, context),
                     trans.edges[k].label)

FirstNodes(trans) == GetNodesByEntity(entity_node_map, trans.source_entities[1].entity)

\* C19: a derived_node rule in which the computation of a property raised
\* still returns; every complete tuple it visited has its node, with the
\* output label, every property that could be computed and the declared
\* edges, and the rule reports one node per complete tuple.
C19_PropertyErrorSkipped ==
    (lastRule.type = "derived_node" /\ propErr) =>
        /\ pc # "failed"
        /\ \A i \in DOMAIN FirstNodes(lastRule) :
              IsComplete(lastRule, FirstNodes(lastRule)[i]) =>
                  DerivedStands(lastRule,
                      TupleContext(lastRule, TupleOf(lastRule, FirstNodes(lastRule)[i])),
                      GenerateNodeIdFromTemplate(lastRule.node_id_template,
                          TupleContext(lastRule, TupleOf(lastRule, FirstNodes(lastRule)[i])),
                          1).id)
        /\ transformation_log[Len(transformation_log)].count
              = Cardinality({i \in DOMAIN FirstNodes(lastRule) :
                                IsComplete(lastRule, FirstNodes(lastRule)[i])})

\* the first tuple of d_two lost its property x, the second kept it
C19_ErrorThenNextTuple ==
    /\ lastRule.type = "derived_node" /\ propErr /\ pc = "rules"
    /\ Len(lastRule.source_entities) = 2
    /\ transformation_log[Len(transformation_log)].count = 2
    /\ Get(pre.nodes[FirstNodes(lastRule)[1]], "x") = None
    /\ \E n, m \in DOMAIN nodes \ DOMAIN pre.nodes :
          /\ LabelOf(n) = "D" /\ "x" \notin DOMAIN nodes[n]
          /\ "facility_id" \in DOMAIN nodes[n]
          /\ LabelOf(m) = "D" /\ "x" \in DOMAIN nodes[m]

IsTruthy(r) == r.ok /\ Truthy(r.val)

\* the condition of a rule holds for node n: it is "true", or it evaluates
\* to a truthy value on the graph as it was when the rule started
HoldsFor(rule, n) ==
    \/ rule.condition.op = "true"
    \/ IsTruthy(Evaluate(PreGraph, EmptyMap, rule.condition,
                         Context(<<"node">>, "node" :> pre.nodes[n], EmptyMap)))

\* the value of the first rule of the list whose condition holds for n
FirstOf(rules, holding) ==
    IF holding = {} THEN None
    ELSE rules[CHOOSE i \in holding : \A j \in holding : i <= j].value

FirstValue(rules, n) ==
    FirstOf(rules, {i \in DOMAIN rules : HoldsFor(rules[i], n)})

\* C20: after an enrich_properties rule, a property defined by a rule list
\* has, on every target node, the value of the first rule in list order
\* whose condition holds for the node; "true" holds unconditionally.
C20_FirstMatchingRule ==
    (lastRule.type = "enrich_properties" /\ pc # "failed") =>
        \A k \in DOMAIN lastRule.enrichments :
            "rules" \in DOMAIN lastRule.enrichments[k] =>
                \A n \in Range(NodesWithLabel(PreGraph, lastRule.target_entity)) :
                    Get(nodes[n], lastRule.enrichments[k].property)
                        = FirstValue(lastRule.enrichments[k].rules, n)

\* one target took the value of the first rule although the second holds
\* too, another took the value of the unconditional rule
C20_LowAndHigh ==
    /\ lastRule.type = "enrich_properties" /\ pc = "rules"
    /\ \E n, m \in DOMAIN pre.nodes :
          /\ Get(nodes[n], "rating") = Str("low")
          /\ Get(nodes[m], "rating") = Str("high")
          /\ "rating" \notin DOMAIN pre.nodes[n]
          /\ "rating" \notin DOMAIN pre.nodes[m]

\* the expression holds a call of an aggregation function
RECURSIVE HasAggCall(_)
HasAggCall(e) ==
    CASE e.op = "agg" -> TRUE
      [] e.op \in {"lit", "field", "true", "now"} -> FALSE
      [] OTHER -> HasAggCall(e.l) \/ HasAggCall(e.r)

\* every target node of the last rule holds, for the enrichment, the value
\* r of one evaluation
SameConstant(targets, e, r) ==
    /\ r.ok
    /\ \A i \in DOMAIN targets : Get(nodes[targets[i]], e.property) = PyRound(e, r.val)

\* C21: after an enrich_properties rule, a property whose expression holds
\* an aggregation call has on every target node the one value the
\* expression has against the empty context on the graph the rule started
\* on.
C21_AggregateExpressionPrecomputed ==
    (lastRule.type = "enrich_properties" /\ pc # "failed") =>
        \A k \in DOMAIN lastRule.enrichments :
            (/\ "expression" \in DOMAIN lastRule.enrichments[k]
             /\ HasAggCall(lastRule.enrichments[k].expression)) =>
                SameConstant(NodesWithLabel(PreGraph, lastRule.target_entity),
                             lastRule.enrichments[k],
                             Evaluate(PreGraph, EmptyMap,
                                      lastRule.enrichments[k].expression,
                                      Context(<<>>, EmptyMap, EmptyMap)))

IsNumber(v) == v.ok /\ IsNum(v.val)

\* the evaluation of e divides a number by a number that is zero (the aggregates of
\* e are read from cache c)
RECURSIVE DivByZero(_, _, _)
DivByZero(e, context, c) ==
    CASE e.op \in {"lit", "field", "agg", "true", "now"} -> FALSE
      [] OTHER -> \/ /\ e.op = "div"
                     /\ PyEval(e.r, context, c) = Good(Num(0))
                     /\ IsNumber(PyEval(e.l, context, c))
                  \/ DivByZero(e.l, context, c)
                  \/ DivByZero(e.r, context, c)

\* every expression property of the tuple that divides by zero is stored on
\* the tuple's node as null
NullWhereDivByZero(trans, context, node_id) ==
    \A k \in DOMAIN trans.properties :
        (/\ "expression" \in DOMAIN trans.properties[k]
         /\ DivByZero(trans.properties[k].expression, context, cache)) =>
            /\ node_id \in DOMAIN nodes
            /\ trans.properties[k].name \in DOMAIN nodes[node_id]
            /\ nodes[node_id][trans.properties[k].name] = None

\* C22: a division by zero yields null and not an error: after a
\* derived_node rule, a property whose expression divides by zero is stored
\* on the node of every complete tuple as null.
C22_DivisionByZeroIsNull ==
    (lastRule.type = "derived_node" /\ pc # "failed") =>
        \A i \in DOMAIN FirstNodes(lastRule) :
            IsComplete(lastRule, FirstNodes(lastRule)[i]) =>
                NullWhereDivByZero(lastRule,
                    TupleContext(lastRule, TupleOf(lastRule, FirstNodes(lastRule)[i])),
                    GenerateNodeIdFromTemplate(lastRule.node_id_template,
                        TupleContext(lastRule, TupleOf(lastRule, FirstNodes(lastRule)[i])),
                        1).id)

\* C23: the graph only grows: no step of the build or of a rule removes a
\* node, an edge or a property key of a node (a value may be replaced).
C23_GraphOnlyGrows ==
    [][/\ DOMAIN nodes \subseteq DOMAIN nodes'
       /\ \A n \in DOMAIN nodes : DOMAIN nodes[n] \subseteq DOMAIN nodes'[n]
       /\ Len(edges) <= Len(edges')
       /\ SubSeq(edges', 1, Len(edges)) = edges]_vars

\* a rule replaced the value of a property of a loaded node, added a key to
\* it, and the graph held edges
C23_PropertyReplaced ==
    /\ lastRule.type = "enrich_properties" /\ pc = "rules"
    /\ Len(pre.edges) > 0
    /\ \E n \in DOMAIN pre.nodes :
          /\ "x" \in DOMAIN pre.nodes[n]
          /\ pre.nodes[n]["x"] # nodes[n]["x"]
          /\ DOMAIN pre.nodes[n] # DOMAIN nodes[n]

\* the labels a rule draws its nodes from
SourceLabels(trans) ==
    CASE trans.type = "cross_link" -> {trans.from_entity, trans.to_entity}
      [] trans.type = "derived_node" -> {trans.source_entities[1].entity}
      [] trans.type = "enrich_properties" -> {trans.target_entity}
      [] trans.type = "aggregation" -> {trans.group_by_entity}
      [] OTHER -> {}

\* C24: a rule whose source sets are empty is a no-op: when no node carried
\* a label the last rule draws from, the rule returned and left the nodes,
\* their properties and the edges as they were.
C24_EmptySourceNoOp ==
    (/\ lastRule # NoRule
     /\ \A l \in SourceLabels(lastRule) : NodesWithLabel(PreGraph, l) = <<>>) =>
        /\ pc # "failed"
        /\ nodes = pre.nodes
        /\ edges = pre.edges

\* the graph of the current state is graph G
SameGraph(G) ==
    /\ nodes = G.nodes
    /\ order = G.order
    /\ edges = G.edges

\* C25: the run is deterministic: a second application of the last rule to
\* the same graph, cache and entity lists (the reference run, whose clock
\* reads Epoch) gives the graph the observed run gave, node for node, value
\* for value and edge for edge.
C25_RuleApplicationDeterministic ==
    lastRule # NoRule =>
        SameGraph(ApplyRule(PreGraph, startCache, entity_node_map, lastRule).G)

HasEmissionEdges == {i \in DOMAIN edges : Get(edges[i].attrs, "label") = Str("HAS_EMISSION")}

\* C26: after load_facilities and load_emissions every emission row has its
\* own EmissionRecord node and its own HAS_EMISSION edge from a node
\* labelled Facility: there are as many EmissionRecord nodes, and as many
\* HAS_EMISSION edges, as rows.
C26_OneRecordAndEdgePerRow ==
    pc = "loaded" =>
        /\ Len(NodesWithLabel(Graph, "EmissionRecord")) = Len(emissions)
        /\ Cardinality(HasEmissionEdges) = Len(emissions)
        /\ \A i \in HasEmissionEdges :
              /\ LabelOf(edges[i].from) = "Facility"
              /\ LabelOf(edges[i].to) = "EmissionRecord"

\* the join conditions of the grammar, over the fields of the loaded tables
JoinConditions ==
    LET named == [type |-> "field_match", from_field |-> "id", to_field |-> "facility_id"]
        written == [type |-> "field_match",
                    from_expression |-> Field("from", "id"),
                    to_expression |-> Field("to", "facility_id")]
        tested == [type |-> "expression",
                   expression |-> Bin("eq", Field("from", "id"), Field("to", "facility_id"))]
    IN  { named, written, tested,
          [operator |-> "AND", conditions |-> <<named, written>>],
          [operator |-> "OR", conditions |-> <<written, tested>>],
          [operator |-> "NOT", conditions |-> <<written>>] }

\* C27: the builder's join and the rule engine's condition evaluation agree:
\* for every join condition of the grammar and every pair of nodes of the
\* graph the engine returns a truth value, the one the builder returns; a
\* field_match over from_field/to_field is true exactly when the two named
\* fields are equal.
C27_JoinAndConditionAgree ==
    \A condition \in JoinConditions : \A u, v \in DOMAIN nodes :
        LET r == EvaluateCondition(Graph, EmptyMap, condition, FromTo(Graph, u, v))
        IN  /\ r.ok
            /\ r.val = EvaluateJoinCondition(condition, nodes[u], nodes[v])
            /\ ("from_field" \in DOMAIN condition =>
                   (r.val <=> Get(nodes[u], "id") = Get(nodes[v], "facility_id")))

\* aggregation calls the call syntax accepts: (function, label, field)
AggTriples ==
    { <<"count", "B", "facility_id">>, <<"count", "B_facility", "id">>,
      <<"count", "A", "">>, <<"sum", "B", "x">>, <<"max", "B", "x">> }

\* the result of call t when call s was evaluated before it with the same
\* cache
ResultAfter(s, first, t) ==
    EvaluateAggregation(Graph, first.cache, t[1], t[2], t[3])

\* C28: two distinct (function, label, field) triples never share a cache
\* entry: a call evaluated after another call of the same rule returns what
\* it returns on an empty cache.
C28_CacheEntryPerTriple ==
    \A s, t \in AggTriples :
        (s # t /\ DOMAIN nodes # {}) =>
            LET alone == EvaluateAggregation(Graph, EmptyMap, t[1], t[2], t[3])
                after == ResultAfter(s, EvaluateAggregation(Graph, EmptyMap, s[1], s[2], s[3]), t)
            IN  /\ CacheKey(s[1], s[2], s[3]) # CacheKey(t[1], t[2], t[3])
                /\ alone.ok => (after.ok /\ after.val = alone.val)

\* a derived_node rule over three aliases whose join condition names all of
\* them: b and c the same B record, a the A record it belongs to
ThreeAliases ==
    [id |-> "d_three", type |-> "derived_node", output_entity |-> "D",
     source_entities |-> << [alias |-> "b", entity |-> "B"],
                            [alias |-> "c", entity |-> "B"],
                            [alias |-> "a", entity |-> "A"] >>,
     join_condition |->
        [operator |-> "AND",
         conditions |-> << [type |-> "field_match",
                            from_expression |-> Field("b", "id"),
                            to_expression |-> Field("c", "id")],
                           [type |-> "field_match",
                            from_expression |-> Field("c", "facility_id"),
                            to_expression |-> Field("a", "id")] >>]]

\* the candidates of an alias for which the join condition is true with the
\* first alias, the candidate and the aliases matched so far bound
TrueCandidates(trans, alias, candidates, names, ids) ==
    SelectSeq(candidates,
              LAMBDA n : IsTrue(EvaluateCondition(Graph, EmptyMap, trans.join_condition,
                                   BindContext(Graph, <<trans.source_entities[1].alias, alias>> \o names,
                                               Update(ids, alias :> n), Range(names)))))

\* the binding the aliases from the i-th on get, in declared order: each the
\* first true candidate, an alias without one left unbound
RECURSIVE FirstTrueBinding(_, _, _, _)
FirstTrueBound(trans, i, names, ids, hits) ==
    IF hits = <<>> THEN FirstTrueBinding(trans, i + 1, names, ids)
    ELSE FirstTrueBinding(trans, i + 1, Append(names, trans.source_entities[i].alias),
                          Update(ids, trans.source_entities[i].alias :> hits[1]))

FirstTrueBinding(trans, i, names, ids) ==
    IF i > Len(trans.source_entities) THEN [names |-> names, ids |-> ids]
    ELSE FirstTrueBound(trans, i, names, ids,
            TrueCandidates(trans, trans.source_entities[i].alias,
                           GetNodesByEntity(entity_node_map, trans.source_entities[i].entity),
                           names, ids))

BoundAsFirstTrue(trans, n, m, b) ==
    m.ok /\ m.names = b.names /\ m.ids = b.ids

\* C29: in a derived_node rule the aliases after the first are bound in
\* declared order, each to the first node of its label for which the join
\* condition is true with the first alias, the candidate and the aliases
\* matched before bound; a join condition that names an alias not yet
\* bound does not make the matching fail.
C29_AliasesBoundInOrder ==
    \A trans \in DerivedNodeRules \cup {ThreeAliases} :
        \A n \in Range(GetNodesByEntity(entity_node_map, trans.source_entities[1].entity)) :
            BoundAsFirstTrue(trans, n,
                FindMatchingNodes(Graph, EmptyMap, entity_node_map, trans, 2, <<>>,
                                  trans.source_entities[1].alias :> n),
                FirstTrueBinding(trans, 2, <<>>, trans.source_entities[1].alias :> n))

\* relationships a schema may declare over the loaded tables: the schema's
\* own, records of equal x, and a join on a field the from-entity lacks
JoinedRelationships ==
    { Schema.relationships[1],
      [name |-> "SAME_X", from_entity |-> "B", to_entity |-> "B",
       join_condition |-> [type |-> "field_match", from_field |-> "x", to_field |-> "x"]],
      [name |-> "HAS_X", from_entity |-> "A", to_entity |-> "B",
       join_condition |-> [type |-> "field_match", from_field |-> "x", to_field |-> "x"]] }

\* the edges _create_relationship adds for rel to the graph as it is
RelatedEdges(rel, G) ==
    SubSeq(G.edges, Len(edges) + 1, Len(G.edges))

BothPresentAndEqual(rel, e) ==
    /\ Get(nodes[e.from], rel.join_condition.from_field) # None
    /\ Get(nodes[e.to], rel.join_condition.to_field) # None
    /\ Get(nodes[e.from], rel.join_condition.from_field)
          = Get(nodes[e.to], rel.join_condition.to_field)

\* C30: the builder creates a relationship edge only between a pair of nodes
\* whose two join fields are both present, not null, and equal.
C30_NoEdgeOnNullJoinField ==
    (pc = "build" /\ nextEntity > Len(Schema.entities)) =>
        \A rel \in JoinedRelationships :
            LET added == RelatedEdges(rel,
                            RelateFrom(Graph, rel,
                                       GetNodesByEntity(entity_node_map, rel.from_entity),
                                       GetNodesByEntity(entity_node_map, rel.to_entity), 1, 1))
            IN  \A i \in DOMAIN added : BothPresentAndEqual(rel, added[i])

====
